---- MODULE Spec2Model ----
(***************************************************************************)
(* The agent loop of agent-loop-go: AgentLoop, ExecuteToolCalls and the    *)
(* default history compactor.  Strings are sequences of bytes, each byte   *)
(* written as a one-character token ("e2", "80", "a6" are the three bytes  *)
(* of the UTF-8 encoding of the ellipsis).  Positions are 1-based: Go's    *)
(* index i is position i + 1 here.                                         *)
(***************************************************************************)
EXTENDS Integers, Sequences, FiniteSets, Bags, TLC

\* ------------------------------------------------------------------ bounds

\* Largest value of maxIterations the caller passes to WithMaxIterations.
MaxIter == 3

\* ----------------------------------------------------------- byte strings

Rep(b, n) == [k \in 1..n |-> b]

\* s[:n] of Go, for n <= len(s).
Prefix(s, n) == SubSeq(s, 1, n)

\* The string literal "…" (three bytes).
Ellipsis == <<"e2", "80", "a6">>

\* encoding/json's escaping of one byte of a string, for the bytes the model
\* uses (quote and backslash are escaped, other printable ASCII and valid
\* UTF-8 are copied; "ff" is a byte that is not valid UTF-8 and is written
\* as the escape of U+FFFD).
EscapeByte(b) ==
  IF b = "\"" THEN <<"\\", "\"">>
  ELSE IF b = "\\" THEN <<"\\", "\\">>
  ELSE IF b = "ff" THEN <<"\\", "u", "f", "f", "f", "d">>
  ELSE <<b>>

\* The escaped bytes of s, in order (computed by halves; a stretch without
\* quote and backslash is its own escaping).
RECURSIVE EscapeString(_)
EscapeString(s) ==
  IF \A k \in DOMAIN s : EscapeByte(s[k]) = <<s[k]>> THEN s
  ELSE IF Len(s) = 1 THEN EscapeByte(s[1])
  ELSE LET h == Len(s) \div 2 IN
    EscapeString(SubSeq(s, 1, h)) \o EscapeString(SubSeq(s, h + 1, Len(s)))

\* json.Marshal of a Go string: the escaped bytes between two quotes.
JsonMarshalString(s) == <<"\"">> \o EscapeString(s) \o <<"\"">>

\* fmt's %q of a string, for names made of printable ASCII.
Quoted(s) == <<"\"">> \o EscapeString(s) \o <<"\"">>

\* ---------------------------------------------------------------- messages

SystemMessage(c)    == [kind |-> "system", Content |-> c]
UserMessage(c)      == [kind |-> "user", Content |-> c]
AssistantMessage(c) == [kind |-> "assistant", Content |-> c]
ThinkingMessage(c)  == [kind |-> "thinking", Content |-> c]
ToolCallMessage(id, name, input) ==
  [kind |-> "tool_call", ID |-> id, Name |-> name, Input |-> input]
ToolResultMessage(id, output) ==
  [kind |-> "tool_result", ID |-> id, Output |-> output]

\* The zero value of a Message interface (an unwritten slot of results).
NilMessage == [kind |-> "nil"]

\* A variant of Add that keeps only the first of the messages.
AddFirstOnly(s, msgs) == IF msgs = <<>> THEN s ELSE Append(s, Head(msgs))

\* A variant of Add that replaces the session's messages.
AddReplaces(s, msgs) == msgs

\* Session.Add: append msgs to the session's Messages.
Add(s, msgs) == s \o msgs

\* InitSession(systemPrompt, userPrompt).
InitSession(systemPrompt, userPrompt) ==
  Add(<<>>, <<SystemMessage(systemPrompt), UserMessage(userPrompt)>>)

\* ------------------------------------------------------------ serialization

\* JSON text is modelled one level above bytes: an object is the sequence of
\* its members, each a key and the bytes of its value as they stand in the
\* text; an array is the sequence of its elements.
Member(key, text) == [key |-> key, text |-> text]

\* The bytes of U+FFFD in UTF-8.
Replacement == <<"ef", "bf", "bd">>

\* The string a JSON string body (the text between the quotes) stands for.
RECURSIVE Unescape(_)
Unescape(s) ==
  IF s = <<>> THEN <<>>
  ELSE IF s[1] = "\\" /\ Len(s) >= 6 /\ s[2] = "u"
    THEN Replacement \o Unescape(SubSeq(s, 7, Len(s)))
  ELSE IF s[1] = "\\" /\ Len(s) >= 2
    THEN <<s[2]>> \o Unescape(SubSeq(s, 3, Len(s)))
  ELSE <<s[1]>> \o Unescape(Tail(s))

\* A variant of JsonUnmarshalString that keeps the escapes.
JsonUnmarshalStringVerbatim(text) == SubSeq(text, 2, Len(text) - 1)

\* json.Unmarshal of a JSON string into a Go string.
JsonUnmarshalString(text) == Unescape(SubSeq(text, 2, Len(text) - 1))

\* encoding/json's compact: white space outside strings is dropped.
RECURSIVE CompactFrom(_, _)
CompactFrom(raw, inString) ==
  IF raw = <<>> THEN <<>>
  ELSE IF inString /\ raw[1] = "\\" /\ Len(raw) >= 2
    THEN <<raw[1], raw[2]>> \o CompactFrom(SubSeq(raw, 3, Len(raw)), TRUE)
  ELSE IF raw[1] = "\""
    THEN <<raw[1]>> \o CompactFrom(Tail(raw), ~inString)
  ELSE IF ~inString /\ raw[1] = " "
    THEN CompactFrom(Tail(raw), inString)
  ELSE <<raw[1]>> \o CompactFrom(Tail(raw), inString)

JsonNull == <<"n", "u", "l", "l">>

\* json.Marshal of a json.RawMessage field: null for nil (the empty
\* sequence here), else the compacted bytes.
JsonMarshalRaw(raw) ==
  IF raw = <<>> THEN JsonNull ELSE CompactFrom(raw, FALSE)

\* The discriminator values.
KindSystem     == <<"s", "y", "s", "t", "e", "m">>
KindUser       == <<"u", "s", "e", "r">>
KindAssistant  == <<"a", "s", "s", "i", "s", "t", "a", "n", "t">>
KindThinking   == <<"t", "h", "i", "n", "k", "i", "n", "g">>
KindToolCall   == <<"t", "o", "o", "l", "_", "c", "a", "l", "l">>
KindToolResult == <<"t", "o", "o", "l", "_", "r", "e", "s", "u", "l", "t">>

\* The MarshalJSON methods of the six message types.
MarshalMessage(m) ==
  IF m.kind = "system" THEN
    << Member("role", JsonMarshalString(KindSystem)),
       Member("content", JsonMarshalString(m.Content)) >>
  ELSE IF m.kind = "user" THEN
    << Member("role", JsonMarshalString(KindUser)),
       Member("content", JsonMarshalString(m.Content)) >>
  ELSE IF m.kind = "assistant" THEN
    << Member("role", JsonMarshalString(KindAssistant)),
       Member("content", JsonMarshalString(m.Content)) >>
  ELSE IF m.kind = "thinking" THEN
    << Member("type", JsonMarshalString(KindThinking)),
       Member("content", JsonMarshalString(m.Content)) >>
  ELSE IF m.kind = "tool_call" THEN
    << Member("type", JsonMarshalString(KindToolCall)),
       Member("id", JsonMarshalString(m.ID)),
       Member("name", JsonMarshalString(m.Name)),
       Member("input", JsonMarshalRaw(m.Input)) >>
  ELSE
    << Member("type", JsonMarshalString(KindToolResult)),
       Member("id", JsonMarshalString(m.ID)),
       Member("output", JsonMarshalString(m.Output)) >>

\* Session.MarshalJSON: the array of the marshaled messages.
MarshalSession(msgs) == [p \in DOMAIN msgs |-> MarshalMessage(msgs[p])]

\* The text of the last member of object with that key, or none.
Has(object, key) == \E p \in DOMAIN object : object[p].key = key
TextOf(object, key) ==
  LET ps == {p \in DOMAIN object : object[p].key = key} IN
    object[CHOOSE p \in ps : \A q \in ps : q <= p].text

\* json.Unmarshal into a string field: the zero value when the member is
\* missing.
StringField(object, key) ==
  IF Has(object, key) THEN JsonUnmarshalString(TextOf(object, key)) ELSE <<>>

\* json.Unmarshal into a json.RawMessage field: a copy of the bytes of the
\* value, nil when the member is missing.
RawField(object, key) ==
  IF Has(object, key) THEN TextOf(object, key) ELSE <<>>

StrUnknownDiscriminator ==
  <<"unknown message discriminator: ">>

\* fmt.Errorf("unknown message discriminator: role=%q type=%q", ...); the
\* fixed words are written as one token each.
DiscriminatorError(role, type) ==
  StrUnknownDiscriminator \o <<"role=">> \o Quoted(role)
    \o <<" type=">> \o Quoted(type)

\* UnmarshalMessage: the switch on disc.Role, then disc.Type, in the order
\* of its cases.
UnmarshalMessage(object) ==
  LET role == StringField(object, "role")
      type == StringField(object, "type")
      content == StringField(object, "content") IN
    IF role = KindSystem
      THEN [ok |-> TRUE, msg |-> SystemMessage(content), err |-> <<>>]
    ELSE IF role = KindUser
      THEN [ok |-> TRUE, msg |-> UserMessage(content), err |-> <<>>]
    ELSE IF role = KindAssistant
      THEN [ok |-> TRUE, msg |-> AssistantMessage(content), err |-> <<>>]
    ELSE IF type = KindThinking
      THEN [ok |-> TRUE, msg |-> ThinkingMessage(content), err |-> <<>>]
    ELSE IF type = KindToolCall
      THEN [ok |-> TRUE,
            msg |-> ToolCallMessage(StringField(object, "id"),
                                    StringField(object, "name"),
                                    RawField(object, "input")),
            err |-> <<>>]
    ELSE IF type = KindToolResult
      THEN [ok |-> TRUE,
            msg |-> ToolResultMessage(StringField(object, "id"),
                                      StringField(object, "output")),
            err |-> <<>>]
    ELSE [ok |-> FALSE, msg |-> NilMessage,
          err |-> DiscriminatorError(role, type)]

\* The loop of Session.UnmarshalJSON from element p on: messages are
\* appended to msgs until an element fails.
RECURSIVE UnmarshalFrom(_, _, _)
UnmarshalFrom(array, p, msgs) ==
  IF p > Len(array) THEN [Messages |-> msgs, err |-> <<>>]
  ELSE LET r == UnmarshalMessage(array[p]) IN
    IF r.ok THEN UnmarshalFrom(array, p + 1, Append(msgs, r.msg))
    ELSE [Messages |-> msgs, err |-> r.err]

\* Session.UnmarshalJSON: s.Messages = make([]Message, 0, len(raws)), then
\* the loop.
UnmarshalSession(array) == UnmarshalFrom(array, 1, <<>>)

\* A map or slice field of ToolInputSchema: nil or not, and its entries.
Collection(isNil, items) == [isNil |-> isNil, items |-> items]

\* ToolInputSchema{Type, Properties, Required}.
ToolInputSchema(type, properties, required) ==
  [Type |-> type, Properties |-> properties, Required |-> required]

\* The JSON text of the entries of a collection, between open and close.
RECURSIVE JoinEntries(_)
JoinEntries(items) ==
  IF items = <<>> THEN <<>>
  ELSE IF Len(items) = 1 THEN JsonMarshalString(items[1])
  ELSE JsonMarshalString(items[1]) \o <<",">> \o JoinEntries(Tail(items))

JsonCollection(c, open, close) ==
  IF c.isNil THEN JsonNull ELSE <<open>> \o JoinEntries(c.items) \o <<close>>

\* A variant of MarshalSchema without omitempty.
MarshalSchemaKeepsEmpty(sc) ==
  << Member("type", JsonMarshalString(sc.Type)),
     Member("properties", JsonCollection(sc.Properties, "{", "}")),
     Member("required", JsonCollection(sc.Required, "[", "]")) >>

\* json.Marshal of a ToolInputSchema: properties and required carry
\* omitempty, which leaves out a map or slice of length 0.  (Of a property
\* only its name is written.)
MarshalSchema(sc) ==
  << Member("type", JsonMarshalString(sc.Type)) >>
  \o (IF Len(sc.Properties.items) = 0 THEN <<>>
      ELSE <<Member("properties", JsonCollection(sc.Properties, "{", "}"))>>)
  \o (IF Len(sc.Required.items) = 0 THEN <<>>
      ELSE <<Member("required", JsonCollection(sc.Required, "[", "]"))>>)


\* ------------------------------------------------------- default compactor

assistantThreshold == 2
prefixLen == 200

\* A variant of CompactMessage that cuts without appending the marker.
CompactMessageNoMarker(m) ==
  IF m.kind = "thinking" /\ Len(m.Content) > prefixLen
    THEN ThinkingMessage(Prefix(m.Content, prefixLen))
  ELSE IF m.kind = "tool_call" /\ Len(m.Input) > prefixLen
    THEN [m EXCEPT !.Input = JsonMarshalString(Prefix(m.Input, prefixLen))]
  ELSE IF m.kind = "tool_result" /\ Len(m.Output) > prefixLen
    THEN [m EXCEPT !.Output = Prefix(m.Output, prefixLen)]
  ELSE m

\* A variant of CompactMessage that builds the truncated tool result anew,
\* without its id.
CompactMessageDropsID(m) ==
  IF m.kind = "thinking" /\ Len(m.Content) > prefixLen
    THEN ThinkingMessage(Prefix(m.Content, prefixLen) \o Ellipsis)
  ELSE IF m.kind = "tool_call" /\ Len(m.Input) > prefixLen
    THEN [m EXCEPT !.Input =
             JsonMarshalString(Prefix(m.Input, prefixLen) \o Ellipsis)]
  ELSE IF m.kind = "tool_result" /\ Len(m.Output) > prefixLen
    THEN ToolResultMessage(<<>>, Prefix(m.Output, prefixLen) \o Ellipsis)
  ELSE m

\* What the compactor stores at an eligible position holding m.
CompactMessage(m) ==
  IF m.kind = "thinking" THEN
    IF Len(m.Content) > prefixLen
      THEN ThinkingMessage(Prefix(m.Content, prefixLen) \o Ellipsis)
      ELSE m
  ELSE IF m.kind = "tool_call" THEN
    IF Len(m.Input) > prefixLen
      THEN [m EXCEPT !.Input =
               JsonMarshalString(Prefix(m.Input, prefixLen) \o Ellipsis)]
      ELSE m
  ELSE IF m.kind = "tool_result" THEN
    IF Len(m.Output) > prefixLen
      THEN [m EXCEPT !.Output = Prefix(m.Output, prefixLen) \o Ellipsis]
      ELSE m
  ELSE m

\* A variant of Skip that forgets the positions already visited.
SkipIgnoresVisited(cs, p, assistantsSeen) ==
  assistantsSeen < assistantThreshold

\* A variant of Skip that forgets the assistant threshold.
SkipIgnoresThreshold(cs, p, assistantsSeen) == p \in cs

\* The guard of each compactable case: the entry at p is left alone when the
\* closure has visited p before or fewer than assistantThreshold assistants
\* follow it.
Skip(cs, p, assistantsSeen) ==
  p \in cs \/ assistantsSeen < assistantThreshold

Compactable(m) == m.kind \in {"thinking", "tool_call", "tool_result"}

\* The loop of the closure defaultCompactor returns, from position p down to
\* 1, with the closure's index set cs and the assistants counted so far.
\* The assignment result.Messages[i] = ... takes effect before the next round
\* of the loop: the updated slice is a value, bound once, that the remaining
\* rounds read.
RECURSIVE compactLoop(_, _, _, _)
compactLoop(msgs, cs, p, assistantsSeen) ==
  IF p < 1 THEN [Messages |-> msgs, compacted |-> cs]
  ELSE LET m == msgs[p] IN
    IF m.kind = "assistant"
      THEN compactLoop(msgs, cs, p - 1, assistantsSeen + 1)
    ELSE IF Compactable(m)
      THEN IF Skip(cs, p, assistantsSeen)
        THEN compactLoop(msgs, cs, p - 1, assistantsSeen)
        ELSE CHOOSE r \in
               {compactLoop(next, cs \cup {p}, p - 1, assistantsSeen) :
                  next \in {[msgs EXCEPT ![p] = CompactMessage(m)]}} : TRUE
    ELSE compactLoop(msgs, cs, p - 1, assistantsSeen)

\* One call of the CompactFunc defaultCompactor returned, whose index set is cs.
defaultCompactor(msgs, cs) == compactLoop(msgs, cs, Len(msgs), 0)

\* A variant of ApplyCompactFunc that compacts also when cfg.compactFunc is
\* nil.
ApplyCompactFuncAlways(on, msgs, cs) == defaultCompactor(msgs, cs)

\* cfg.compactFunc applied when it is not nil.
ApplyCompactFunc(on, msgs, cs) ==
  IF on THEN defaultCompactor(msgs, cs)
  ELSE [Messages |-> msgs, compacted |-> cs]

\* ------------------------------------------------------------ tool registry

\* Tool names and the handlers registered under them.
NameAdd  == <<"a", "d", "d">>
NameEcho == <<"e", "c", "h", "o">>
NameNope == <<"n", "o", "p", "e">>

Tool(name, handler) == [Name |-> name, Handler |-> handler]

\* A variant of Handlers in which the first tool of a name keeps the name.
HandlersFirstWins(ts) ==
  LET names == {ts[k].Name : k \in DOMAIN ts}
      first(n) == CHOOSE k \in DOMAIN ts :
                    /\ ts[k].Name = n
                    /\ \A j \in DOMAIN ts : ts[j].Name = n => k <= j
  IN [n \in names |-> ts[first(n)].Handler]

\* The handler map AgentLoop builds: handlers[t.Definition.Name] = t.Handler
\* for each tool in list order, so a later tool replaces an earlier one.
Handlers(ts) ==
  LET names == {ts[k].Name : k \in DOMAIN ts}
      last(n) == CHOOSE k \in DOMAIN ts :
                   /\ ts[k].Name = n
                   /\ \A j \in DOMAIN ts : ts[j].Name = n => j <= k
  IN [n \in names |-> ts[last(n)].Handler]

\* defs[i] = t.Definition: the definitions handed to the invoker, by name.
\* A variant of HandlerFor that falls back to the add handler.
HandlerForWithFallback(hs, name) ==
  [ok |-> TRUE,
   handler |-> IF name \in DOMAIN hs THEN hs[name] ELSE "addHandler"]

\* handler, ok := handlers[call.Name]
HandlerFor(hs, name) ==
  IF name \in DOMAIN hs THEN [ok |-> TRUE, handler |-> hs[name]]
  ELSE [ok |-> FALSE, handler |-> "nil"]

Definitions(ts) == [k \in DOMAIN ts |-> ts[k].Name]

\* The text a handler returns on success, and the message of its error.
HandlerText(h, input) ==
  IF h = "addHandler" THEN <<"6", "9", "1", "2">>
  ELSE IF h = "add2Handler" THEN <<"7">>
  ELSE input

HandlerError(h) == <<"b", "a", "d", " ">> \o <<h>>

StrError == <<"E", "r", "r", "o", "r", ":", " ">>
StrUnknownTool == <<"u", "n", "k", "n", "o", "w", "n", " ", "t", "o", "o", "l", " ">>

\* A variant of UnknownToolOutput that prints the name as it is (%s).
UnknownToolOutputPlain(name) == StrError \o StrUnknownTool \o name

\* fmt.Sprintf("Error: unknown tool %q", call.Name)
UnknownToolOutput(name) == StrError \o StrUnknownTool \o Quoted(name)

\* A variant of HandlerOutput that drops the handler's error.
HandlerOutputDropsError(failed, out, errmsg) == out

\* The output of a call whose handler returned (out, err).
HandlerOutput(failed, out, errmsg) ==
  IF failed THEN StrError \o errmsg ELSE out

\* Variants of ResultSlot: the first slot still unwritten (results in
\* completion order), the mirrored slot, and the last slot for every unit
\* (a loop variable shared by the goroutines).
ResultSlotFirstFree(k, res) ==
  IF \E p \in DOMAIN res : res[p].kind = "nil"
    THEN CHOOSE p \in DOMAIN res :
           /\ res[p].kind = "nil"
           /\ \A q \in DOMAIN res : res[q].kind = "nil" => p <= q
    ELSE k
ResultSlotMirrored(k, res) == Len(res) + 1 - k
ResultSlotShared(k, res) == Len(res)

\* results[i] = ...: the slot the unit of call k writes.
ResultSlot(k, res) == k

\* Whether the handler of unit j of the batch u has been called.
HandlerStarted(u, j) ==
  \/ u[j].st = "running"
  \/ u[j].st \in {"computed", "done"} /\ u[j].outcome \in {"ok", "error"}

\* Whether the handler h, called by unit k of the batch u, can return:
\* waitHandler blocks until the handler of a sibling call has been called,
\* the other handlers return on their own.
MayReturn(h, k, u) ==
  h = "waitHandler" => \E j \in DOMAIN u : j # k /\ HandlerStarted(u, j)

\* A variant of Scheduled that runs the calls one after another, in call
\* order.
ScheduledInTurn(k, u) == \A j \in DOMAIN u : j < k => u[j].st = "done"

\* go func(i, call) {...}(i, call): the goroutine of call k runs whatever
\* its siblings do.
Scheduled(k, u) == k \in DOMAIN u

\* Variants of WaitDone: a barrier that lets one unit go, and no barrier.
WaitDoneButOne(counter) == counter <= 1
WaitDoneNoBarrier(counter) == TRUE

\* A variant of WaitDone that never lets the wait end.
WaitDoneNever(counter) == counter < 0

\* wg.Wait() returns when the counter is zero.
WaitDone(counter) == counter = 0

\* The tool calls of one model response, in order.
RECURSIVE CollectToolCalls(_)
CollectToolCalls(msgs) ==
  IF msgs = <<>> THEN <<>>
  ELSE IF Head(msgs).kind = "tool_call"
    THEN <<Head(msgs)>> \o CollectToolCalls(Tail(msgs))
    ELSE CollectToolCalls(Tail(msgs))

\* Variants of LastIteration: off by one, late and early.
LastIterationLate(iter, max) == iter = max
LastIterationEarly(iter, max) == iter = max - 2

\* i == cfg.maxIterations-1
LastIteration(iter, max) == iter = max - 1

\* ------------------------------------------------------------------ inputs

TextHi   == <<"h", "i">>
TextSys  == <<"s", "y", "s">>
TextUser == <<"1", "+", "2", "?">>
Long     == Rep("a", prefixLen + 1)
EmptyObject == <<"{", "}">>
LongObject  == <<"{", "\"", "k", "\"", ":", "\"">> \o Rep("a", prefixLen)
                 \o <<"\"", "}">>

ToolLists ==
  { <<Tool(NameAdd, "addHandler"), Tool(NameEcho, "echoHandler")>>,
    <<Tool(NameAdd, "addHandler"), Tool(NameAdd, "add2Handler")>> }

\* The sessions AgentLoop is called with: a fresh one, and a conversation
\* that already holds a finished tool round and two assistant turns.
InputSessions ==
  { InitSession(TextSys, TextUser),
    InitSession(TextSys, TextUser) \o
      << ToolCallMessage("c0", NameEcho, LongObject),
         ToolResultMessage("c0", Long),
         AssistantMessage(TextHi), AssistantMessage(TextHi) >> }

\* What one model invocation may return.
RespDone   == <<AssistantMessage(TextHi)>>
RespNone   == <<>>
RespCall   == <<AssistantMessage(TextHi),
                ToolCallMessage("c1", NameAdd, EmptyObject)>>
RespTriple == <<ToolCallMessage("c1", NameAdd, EmptyObject),
                ToolCallMessage("c2", NameNope, EmptyObject),
                ToolCallMessage("c3", NameEcho, LongObject)>>
RespThink  == <<ThinkingMessage(Long), AssistantMessage(TextHi),
                AssistantMessage(TextHi),
                ToolCallMessage("c4", NameAdd, EmptyObject)>>

Responses == {RespDone, RespNone, RespCall, RespTriple, RespThink}

\* A call of a tool nobody registered: the dispatch has one outcome.
RespProbe  == <<ToolCallMessage("c7", NameNope, EmptyObject)>>

\* The invokeModel functions AgentLoop is called with: one that may answer
\* anything of Responses, and one that keeps probing an unknown tool until it
\* answers with text.
ModelResponses(m) ==
  IF m = "scripted" THEN {RespDone, RespProbe} ELSE Responses

\* The errors invokeModel may return, each a chain of messages, outermost
\* first; the empty chain is nil.
ErrNil == <<>>
InvokeErrors == { <<"deadline exceeded">>, <<"http 500">> }

\* A variant of InvokeFailure that wraps the error.
InvokeFailureWrapped(e) == <<"agent loop">> \o e

\* return session, err: the error AgentLoop returns when invokeModel fails.
InvokeFailure(e) == e

\* cfg.maxIterations after the options are applied: with holds n when
\* WithMaxIterations(n) was given and is empty when it was not.
DefaultMaxIterations == 30
\* A variant of ConfigMaxIterations that allows one iteration more.
ConfigMaxIterationsOneMore(with) ==
  IF with = <<>> THEN DefaultMaxIterations + 1 ELSE with[1] + 1

ConfigMaxIterations(with) ==
  IF with = <<>> THEN DefaultMaxIterations ELSE with[1]

\* The context.Context AgentLoop is called with, and no context.
Ctx   == <<"ctx">>
NoCtx == <<>>

\* invokeModel(ctx, defs, session): the context the invoker receives.
InvokeCtx(ctx) == ctx

\* A variant of HandlerArgs that hands over the input as the compactor
\* would leave it.
HandlerArgsTruncated(ctx, call) == [input |-> CompactMessage(call).Input]

\* handler(call.Input): the arguments a handler receives.
HandlerArgs(ctx, call) == [input |-> call.Input]

\* A variant of ThisTurnCalls that collects from the whole session.
ThisTurnCallsFromSession(all, new) == CollectToolCalls(all)

\* The tool calls AgentLoop dispatches after a response: those of newMsgs.
ThisTurnCalls(all, new) == CollectToolCalls(new)

\* Whether session.Messages still is the caller's backing array after
\* append(s.Messages, msgs...) on a slice whose capacity is its length.
StillShared(shared, msgs) == shared /\ Len(msgs) = 0

\* ------------------------------------------------------------------- state

VARIABLES
  tools,          \* the []Tool passed to AgentLoop
  model,          \* the invokeModel passed to AgentLoop
  withMaxIterations, \* <<n>> when WithMaxIterations(n) was given, else <<>>
  maxIterations,  \* cfg.maxIterations
  compactFunc,    \* cfg.compactFunc != nil
  logFunc,        \* cfg.logFunc != nil
  input,          \* the session AgentLoop was called with
  session,        \* session.Messages
  compacted,      \* the index set of the default compactor's closure
  i,              \* the loop variable of AgentLoop
  pc,             \* where AgentLoop is
  err,            \* the error AgentLoop returned
  newMsgs,        \* the messages of the last model response
  toolCalls,      \* the tool calls of this turn
  results,        \* the results slice of ExecuteToolCalls
  unit,           \* the goroutines of the batch, by call position
  wg,             \* the WaitGroup counter
  order,          \* the call positions of the batch, in completion order
  invokedWith,    \* the session the invoker received last
  invocations,    \* the number of model invocations so far
  invokeFailed,   \* whether the last model invocation returned an error
  handlerRuns,    \* bag of handler invocations [iter, idx, id, handler, input,
                  \* args]
  appended,       \* every message passed to session.Add so far
  logged,         \* every message passed to cfg.logFunc so far
  turns,          \* per finished step: the response and the handler outputs
  caller,         \* the messages of the Session value the caller still holds
  aliased,        \* whether session.Messages is the caller's backing array
  invokeErr,      \* the error invokeModel returned last
  errValue,       \* the error value AgentLoop returned
  invokedCtx,     \* the context the invoker received last
  invokedDefs,    \* the tool definitions the invoker received last
  system,         \* the system blocks buildParams returned
  messages,       \* the message turns buildParams returned
  wire,           \* the JSON array a session was marshaled to or is read from
  decoded,        \* the Messages of the Session that is unmarshaled into
  decodeErr,      \* the error of the last UnmarshalJSON
  schema,         \* the ToolInputSchema that is marshaled
  schemaWire      \* the JSON object that schema was marshaled to

vars == <<tools, maxIterations, compactFunc, logFunc, input, session,
          compacted, i, pc, err, newMsgs, toolCalls, results, unit, wg,
          order, invokedWith, invocations, invokeFailed, handlerRuns,
          appended, logged, turns, model, withMaxIterations, caller,
          aliased, invokeErr, errValue, invokedCtx, invokedDefs, system, messages, wire,
          decoded,
          decodeErr, schema, schemaWire>>

config == <<tools, model, withMaxIterations, maxIterations, compactFunc,
            logFunc, input>>
alias   == <<caller, aliased>>
failure == <<invokeErr, errValue>>
codec   == <<wire, decoded, decodeErr, schema, schemaWire>>
invokerArgs == <<invokedCtx, invokedDefs>>
request == <<system, messages>>

\* No serialization is going on.
CodecIdle ==
  /\ wire = <<>>
  /\ decoded = <<>>
  /\ decodeErr = <<>>
  /\ schema = ToolInputSchema(<<>>, Collection(TRUE, <<>>),
                              Collection(TRUE, <<>>))
  /\ schemaWire = <<>>
batch  == <<toolCalls, results, unit, wg, order>>

handlers == Handlers(tools)

\* A variant of Log that calls the observer for the first message only.
LogFirstOnly(msgs) ==
  IF logFunc /\ msgs # <<>> THEN Append(logged, Head(msgs)) ELSE logged

\* cfg.logFunc(m) for each m of msgs, when a logger is set.
Log(msgs) == IF logFunc THEN logged \o msgs ELSE logged

\* AgentLoop is called either with options and any model, or with no option
\* at all (30 iterations, the default compactor, no logger) and the scripted
\* model.  The caller keeps the Session value it passed.
Init ==
  /\ tools \in ToolLists
  /\ \/ /\ model = "free"
        /\ withMaxIterations \in {<<n>> : n \in (0 - 1)..MaxIter}
        /\ compactFunc \in BOOLEAN
        /\ logFunc \in BOOLEAN
     \/ /\ model = "scripted"
        /\ withMaxIterations = <<>>
        /\ compactFunc = TRUE
        /\ logFunc = FALSE
  /\ maxIterations = ConfigMaxIterations(withMaxIterations)
  /\ input \in InputSessions
  /\ session = input
  /\ caller = input
  /\ aliased = TRUE
  /\ invokeErr = ErrNil
  /\ errValue = ErrNil
  /\ invokedCtx = NoCtx
  /\ invokedDefs = <<>>
  /\ system = <<>>
  /\ messages = <<>>
  /\ CodecIdle
  /\ compacted = {}
  /\ i = 0
  /\ pc = "loop"
  /\ err = "nil"
  /\ newMsgs = <<>>
  /\ toolCalls = <<>>
  /\ results = <<>>
  /\ unit = <<>>
  /\ wg = 0
  /\ order = <<>>
  /\ invokedWith = <<>>
  /\ invocations = 0
  /\ invokeFailed = FALSE
  /\ handlerRuns = EmptyBag
  /\ appended = <<>>
  /\ logged = <<>>
  /\ turns = <<>>

\* ---------------------------------------------------------------- AgentLoop

\* The head of an iteration: compact the session, then call invokeModel.
Iterate ==
  /\ pc = "loop"
  /\ i < maxIterations
  /\ LET c == ApplyCompactFunc(compactFunc, session, compacted) IN
       /\ session' = c.Messages
       /\ compacted' = c.compacted
       /\ invokedWith' = c.Messages
       /\ invokedCtx' = InvokeCtx(Ctx)
       /\ invokedDefs' = Definitions(tools)
       /\ caller' = IF aliased THEN SubSeq(c.Messages, 1, Len(caller))
                               ELSE caller
  /\ invocations' = invocations + 1
  /\ pc' = "invoke"
  /\ UNCHANGED <<config, codec, request, aliased, failure, batch, i, err, newMsgs,
                 invokeFailed, handlerRuns,
                 appended, logged, turns>>

\* The range loop is exhausted: return session, nil.
LoopExit ==
  /\ pc = "loop"
  /\ ~(i < maxIterations)
  /\ pc' = "returned"
  /\ err' = "nil"
  /\ UNCHANGED <<config, codec, invokerArgs, request, alias, failure, batch, session, compacted, i, newMsgs, invokedWith,
                 invocations, invokeFailed, handlerRuns, appended, logged,
                 turns>>

\* invokeModel returned an error: return session, err.
InvokeModelError(e) ==
  /\ pc = "invoke"
  /\ invokeFailed' = TRUE
  /\ invokeErr' = e
  /\ newMsgs' = <<>>
  /\ pc' = "returned"
  /\ err' = "invoke"
  /\ errValue' = InvokeFailure(e)
  /\ UNCHANGED <<config, codec, invokerArgs, request, alias, batch, session, compacted, i, invokedWith,
                 invocations, handlerRuns, appended, logged, turns>>

\* invokeModel returned resp: append, log, collect the tool calls and decide.
InvokeModelOk(resp) ==
  /\ pc = "invoke"
  /\ invokeFailed' = FALSE
  /\ newMsgs' = resp
  /\ session' = Add(session, resp)
  /\ appended' = appended \o resp
  /\ logged' = Log(resp)
  /\ toolCalls' = ThisTurnCalls(session', resp)
  /\ aliased' = StillShared(aliased, resp)
  /\ turns' = Append(turns, [response |-> resp, outputs |-> <<>>])
  /\ IF Len(toolCalls') = 0
       THEN pc' = "returned" /\ err' = "nil"
       ELSE IF LastIteration(i, maxIterations)
         THEN pc' = "returned" /\ err' = "maxiter"
         ELSE pc' = "dispatch" /\ err' = err
  /\ UNCHANGED <<config, codec, invokerArgs, request, caller, failure, results, unit, wg, order,
                 compacted, i, invokedWith, invocations, handlerRuns>>

\* ----------------------------------------------------------- ExecuteToolCalls

\* results := make([]Message, len(calls)); one goroutine per call, wg.Add(1)
\* before each.
Spawn ==
  /\ pc = "dispatch"
  /\ results' = [k \in 1..Len(toolCalls) |-> NilMessage]
  /\ unit' = [k \in 1..Len(toolCalls) |-> [st |-> "spawned", outcome |-> "none", output |-> <<>>]]
  /\ wg' = Len(toolCalls)
  /\ order' = <<>>
  /\ pc' = "wait"
  /\ UNCHANGED <<config, codec, invokerArgs, request, alias, failure, session, compacted, i, err, newMsgs, toolCalls,
                 invokedWith, invocations, invokeFailed, handlerRuns,
                 appended, logged, turns>>

\* The goroutine of call k looks its handler up and, if there is one, calls it.
UnitStart(k) ==
  /\ k \in DOMAIN unit
  /\ unit[k].st = "spawned"
  /\ Scheduled(k, unit)
  /\ LET call == toolCalls[k] IN
       IF HandlerFor(handlers, call.Name).ok
         THEN /\ unit' = [unit EXCEPT ![k].st = "running"]
              /\ handlerRuns' = handlerRuns (+) SetToBag(
                   {[iter |-> i, idx |-> k, id |-> call.ID,
                     handler |-> HandlerFor(handlers, call.Name).handler,
                     input |-> call.Input,
                     args |-> HandlerArgs(Ctx, call)]})
         ELSE /\ unit' = [unit EXCEPT ![k] =
                   [st |-> "computed", outcome |-> "unknown",
                    output |-> UnknownToolOutput(call.Name)]]
              /\ UNCHANGED handlerRuns
  /\ UNCHANGED <<config, codec, invokerArgs, request, alias, failure, session, compacted, i, pc, err, newMsgs, toolCalls,
                 results, wg, order, invokedWith, invocations, invokeFailed,
                 appended, logged, turns>>

\* The handler of call k returns, with a text or with an error.  A handler
\* that blocks is one for which this step never happens.
HandlerReturn(k, failed) ==
  /\ k \in DOMAIN unit
  /\ unit[k].st = "running"
  /\ MayReturn(HandlerFor(handlers, toolCalls[k].Name).handler, k, unit)
  /\ LET call == toolCalls[k]
         h == HandlerFor(handlers, call.Name).handler IN
       unit' = [unit EXCEPT ![k] =
         [st |-> "computed",
          outcome |-> IF failed THEN "error" ELSE "ok",
          output |-> HandlerOutput(failed, HandlerText(h, call.Input),
                                   HandlerError(h))]]
  /\ UNCHANGED <<config, codec, invokerArgs, request, alias, failure, session, compacted, i, pc, err, newMsgs, toolCalls,
                 results, wg, order, invokedWith, invocations, invokeFailed,
                 handlerRuns, appended, logged, turns>>

\* The goroutine of call k stores its result and runs the deferred wg.Done().
UnitDone(k) ==
  /\ k \in DOMAIN unit
  /\ unit[k].st = "computed"
  /\ results' = [results EXCEPT ![ResultSlot(k, results)] =
                   ToolResultMessage(toolCalls[k].ID, unit[k].output)]
  /\ unit' = [unit EXCEPT ![k].st = "done"]
  /\ wg' = wg - 1
  /\ order' = Append(order, k)
  /\ UNCHANGED <<config, codec, invokerArgs, request, alias, failure, session, compacted, i, pc, err, newMsgs, toolCalls,
                 invokedWith, invocations, invokeFailed, handlerRuns,
                 appended, logged, turns>>

\* wg.Wait() returns, ExecuteToolCalls returns results; AgentLoop appends and
\* logs them and goes to the next iteration.
WaitReturn ==
  /\ pc = "wait"
  /\ WaitDone(wg)
  /\ session' = Add(session, results)
  /\ appended' = appended \o results
  /\ logged' = Log(results)
  /\ aliased' = StillShared(aliased, results)
  /\ turns' = [turns EXCEPT ![Len(turns)].outputs =
                 [k \in DOMAIN unit |-> unit[k].output]]
  /\ i' = i + 1
  /\ pc' = "loop"
  /\ UNCHANGED <<config, codec, invokerArgs, request, caller, failure, compacted, err, newMsgs, toolCalls,
                 results, unit,
                 wg, order, invokedWith, invocations, invokeFailed, handlerRuns>>

Next ==
  \/ Iterate
  \/ LoopExit
  \/ \E e \in InvokeErrors : InvokeModelError(e)
  \/ \E resp \in ModelResponses(model) : InvokeModelOk(resp)
  \/ Spawn
  \/ \E k \in DOMAIN unit : UnitStart(k)
  \/ \E k \in DOMAIN unit, failed \in BOOLEAN : HandlerReturn(k, failed)
  \/ \E k \in DOMAIN unit : UnitDone(k)
  \/ WaitReturn

Spec == Init /\ [][Next]_vars

\* ------------------------------------------- ExecuteToolCalls called directly

\* The batches ExecuteToolCalls is called with: none, three calls of which
\* one names an unknown tool, two calls with the same id and name, and two
\* calls of different tools.
CallLists ==
  { <<>>,
    CollectToolCalls(RespTriple),
    << ToolCallMessage("c1", NameAdd, EmptyObject),
       ToolCallMessage("c1", NameAdd, EmptyObject) >>,
    << ToolCallMessage("c5", NameEcho, LongObject),
       ToolCallMessage("c6", NameAdd, EmptyObject) >> }

\* The state in which ExecuteToolCalls is entered.
ExecStart ==
  /\ model = "free"
  /\ withMaxIterations = <<1>>
  /\ maxIterations = 1
  /\ compactFunc = FALSE
  /\ logFunc = FALSE
  /\ input = <<>>
  /\ session = <<>>
  /\ caller = <<>>
  /\ aliased = FALSE
  /\ invokeErr = ErrNil
  /\ errValue = ErrNil
  /\ invokedCtx = NoCtx
  /\ invokedDefs = <<>>
  /\ system = <<>>
  /\ messages = <<>>
  /\ CodecIdle
  /\ compacted = {}
  /\ i = 0
  /\ pc = "dispatch"
  /\ err = "nil"
  /\ newMsgs = <<>>
  /\ results = <<>>
  /\ unit = <<>>
  /\ wg = 0
  /\ order = <<>>
  /\ invokedWith = <<>>
  /\ invocations = 0
  /\ invokeFailed = FALSE
  /\ handlerRuns = EmptyBag
  /\ appended = <<>>
  /\ logged = <<>>
  /\ turns = <<>>

\* A caller other than AgentLoop calls ExecuteToolCalls(calls, handlers).
InitExec ==
  /\ tools \in ToolLists
  /\ toolCalls \in CallLists
  /\ ExecStart

\* wg.Wait() returns and ExecuteToolCalls returns results to its caller.
ExecReturn ==
  /\ pc = "wait"
  /\ WaitDone(wg)
  /\ pc' = "exec_returned"
  /\ UNCHANGED <<config, codec, invokerArgs, request, alias, failure, batch, session, compacted, i, err, newMsgs,
                 invokedWith, invocations, invokeFailed, handlerRuns,
                 appended, logged, turns>>

NextExec ==
  \/ Spawn
  \/ \E k \in DOMAIN unit : UnitStart(k)
  \/ \E k \in DOMAIN unit, failed \in BOOLEAN : HandlerReturn(k, failed)
  \/ \E k \in DOMAIN unit : UnitDone(k)
  \/ ExecReturn

SpecExec == InitExec /\ [][NextExec]_vars

\* ------------------------------------------ the default compactor on its own

\* The longest session the compactor is applied to.
MaxLen == 5

AtLimit == Rep("b", prefixLen)

\* The messages a session is grown from: content of one byte more than
\* prefixLen, of exactly prefixLen bytes, and text that is never compacted.
Entries ==
  { UserMessage(Long),
    AssistantMessage(Long),
    ThinkingMessage(Long),
    ThinkingMessage(AtLimit),
    ToolCallMessage("c8", NameEcho, LongObject),
    ToolResultMessage("c8", Long) }

\* compact := defaultCompactor(), and a session that is empty or holds a
\* system prompt.
InitCompact ==
  /\ tools = <<>>
  /\ model = "free"
  /\ withMaxIterations = <<>>
  /\ maxIterations = 0
  /\ compactFunc = TRUE
  /\ logFunc = FALSE
  /\ input \in {<<>>, <<SystemMessage(Long)>>}
  /\ session = input
  /\ caller = <<>>
  /\ aliased = FALSE
  /\ compacted = {}
  /\ i = 0
  /\ pc = "grown"
  /\ err = "nil"
  /\ invokeErr = ErrNil
  /\ errValue = ErrNil
  /\ invokedCtx = NoCtx
  /\ invokedDefs = <<>>
  /\ system = <<>>
  /\ messages = <<>>
  /\ CodecIdle
  /\ newMsgs = <<>>
  /\ toolCalls = <<>>
  /\ results = <<>>
  /\ unit = <<>>
  /\ wg = 0
  /\ order = <<>>
  /\ invokedWith = <<>>
  /\ invocations = 0
  /\ invokeFailed = FALSE
  /\ handlerRuns = EmptyBag
  /\ appended = <<>>
  /\ logged = <<>>
  /\ turns = <<>>

\* s.Add(m)
SessionAdd(m) ==
  /\ pc \in {"grown", "compacted", "recompacted"}
  /\ Len(session) < MaxLen
  /\ session' = Add(session, <<m>>)
  /\ appended' = Append(appended, m)
  /\ pc' = "grown"
  /\ UNCHANGED <<config, codec, invokerArgs, request, alias, failure, batch, compacted, i, err, newMsgs,
                 invokedWith, invocations, invokeFailed, handlerRuns, logged,
                 turns>>

\* s = compact(s); invokedWith keeps the session compact was applied to, and
\* pc tells a call that follows a call from one that follows an Add.
CompactCall ==
  /\ pc \in {"grown", "compacted", "recompacted"}
  /\ LET c == defaultCompactor(session, compacted) IN
       /\ session' = c.Messages
       /\ compacted' = c.compacted
  /\ invokedWith' = session
  /\ pc' = IF pc = "grown" THEN "compacted" ELSE "recompacted"
  /\ UNCHANGED <<config, codec, invokerArgs, request, alias, failure, batch, i, err, newMsgs, invocations,
                 invokeFailed, handlerRuns, appended, logged, turns>>

NextCompact ==
  \/ \E m \in Entries : SessionAdd(m)
  \/ CompactCall

SpecCompact == InitCompact /\ [][NextCompact]_vars

\* ------------------------------------------------------------------ claims

\* The last n messages of msgs.
Suffix(msgs, n) == SubSeq(msgs, Len(msgs) - n + 1, Len(msgs))

\* ExecuteToolCalls passes its barrier and returns results.
Collected == pc = "wait" /\ wg = 0

\* C1: ExecuteToolCalls returns exactly len(calls) ToolResult messages with
\* result[i].ID = calls[i].ID for every i, whatever order the handlers
\* finished in.
C1_ResultsMatchCalls ==
  Collected =>
    /\ Len(results) = Len(toolCalls)
    /\ \A k \in DOMAIN toolCalls :
         /\ results[k].kind = "tool_result"
         /\ results[k].ID = toolCalls[k].ID

\* A batch of three calls with distinct ids that finished in reverse order.
C1_Witness ==
  /\ Collected
  /\ Len(toolCalls) = 3
  /\ order = <<3, 2, 1>>

\* AgentLoop returned nil after a model response without tool calls.
DoneByResponse ==
  invocations > 0 /\ ~invokeFailed /\ CollectToolCalls(newMsgs) = <<>>

\* C2: AgentLoop returns a nil error exactly when a model response holds no
\* ToolCall: a response without tool calls ends the loop successfully at
\* once, and there is no successful return in any other situation.
C2_DoneIffNoToolCalls ==
  /\ pc = "returned" => (err = "nil" <=> DoneByResponse)
  /\ (pc \notin {"invoke", "returned"} /\ invocations > 0) =>
       CollectToolCalls(newMsgs) # <<>>

\* C2 for maxIterations >= 1 only: there the nil return and the response
\* without tool calls coincide.
C2_DoneIffNoToolCallsFromOne ==
  /\ (pc = "returned" /\ maxIterations >= 1) =>
       (err = "nil" <=> DoneByResponse)
  /\ (pc \notin {"invoke", "returned"} /\ invocations > 0) =>
       CollectToolCalls(newMsgs) # <<>>

\* AgentLoop returned nil in its second iteration, after a dispatched batch.
C2_Witness ==
  /\ pc = "returned"
  /\ err = "nil"
  /\ invocations = 2
  /\ CollectToolCalls(newMsgs) = <<>>

\* C3: AgentLoop returns an error exactly when a model invocation returned
\* an error, or the response of iteration number maxIterations holds tool
\* calls.
C3_FailedIffErrorOrLimit ==
  pc = "returned" =>
    /\ err = "invoke" <=> invokeFailed
    /\ err = "maxiter" <=>
         (~invokeFailed /\ invocations = maxIterations
            /\ CollectToolCalls(newMsgs) # <<>>)
    /\ err \in {"nil", "invoke", "maxiter"}

\* The loop failed on the iteration limit after two dispatched batches.
C3_Witness ==
  /\ pc = "returned"
  /\ err = "maxiter"
  /\ invocations = 3

\* C4: when the response of the last allowed iteration holds tool calls, no
\* handler is invoked for them and the returned session ends with that
\* response, with no ToolResult after it.
C4_LimitSkipsDispatch ==
  (/\ invocations = maxIterations
   /\ pc # "invoke"
   /\ ~invokeFailed
   /\ CollectToolCalls(newMsgs) # <<>>) =>
    /\ pc = "returned"
    /\ err = "maxiter"
    /\ Len(session) >= Len(newMsgs)
    /\ Suffix(session, Len(newMsgs)) = newMsgs
    /\ \A r \in BagToSet(handlerRuns) : r.iter < maxIterations - 1
    /\ \A k \in DOMAIN unit : unit[k].st = "done"

\* The limit was hit with maxIterations = 1 by a response with three calls.
C4_Witness ==
  /\ pc = "returned"
  /\ err = "maxiter"
  /\ maxIterations = 1
  /\ Len(CollectToolCalls(newMsgs)) = 3
  /\ handlerRuns = EmptyBag

\* The input session followed by every message passed to session.Add.
Original == input \o appended

\* C5 (amended): on every return path the returned session holds, position
\* by position, the messages of the input session followed in append order
\* by every appended message: none is dropped, none changes kind, and a
\* position holds the message itself unless the compactor finalized it, in
\* which case it holds the compactor's replacement of that message; without
\* a compactor the session is the input followed by the appended messages.
C5_ReturnedSessionKeepsAll ==
  pc = "returned" =>
    /\ Len(session) = Len(Original)
    /\ \A p \in DOMAIN session :
         /\ session[p].kind = Original[p].kind
         /\ p \notin compacted => session[p] = Original[p]
         /\ p \in compacted => session[p] = CompactMessage(Original[p])
    /\ ~compactFunc => session = Original

\* C5 as stated, with every message held unchanged: the returned session is
\* the input session followed by the appended messages.
C5_ReturnedSessionIsInputPlusAppended ==
  pc = "returned" => session = Original

\* AgentLoop returned an invocation error after a batch was appended and
\* after the compactor rewrote an entry.
C5_Witness ==
  /\ pc = "returned"
  /\ err = "invoke"
  /\ Len(appended) > 3
  /\ \E p \in compacted : p > Len(input) /\ session[p] # Original[p]

\* The messages of one turn: the response, then one ToolResult per tool call
\* of the response, in call order, carrying the recorded handler outputs.
TurnMessages(t) ==
  LET calls == CollectToolCalls(t.response) IN
    t.response \o [k \in DOMAIN t.outputs |->
                     ToolResultMessage(calls[k].ID, t.outputs[k])]

\* The session a strictly sequential run produces from the same input, model
\* responses and handler outputs: n compactions, each followed by the
\* messages of the turn of that number, if it exists.
RECURSIVE Replay(_, _, _, _, _)
Replay(msgs, cs, ts, j, n) ==
  IF j > n THEN msgs
  ELSE LET c == ApplyCompactFunc(compactFunc, msgs, cs)
           next == IF j <= Len(ts) THEN c.Messages \o TurnMessages(ts[j])
                   ELSE c.Messages
       IN Replay(next, c.compacted, ts, j + 1, n)

RECURSIVE Flatten(_)
Flatten(ts) ==
  IF ts = <<>> THEN <<>> ELSE TurnMessages(Head(ts)) \o Flatten(Tail(ts))

\* C6: each iteration appends the model's messages in the returned order,
\* then one ToolResult per tool call in call order, whatever order the
\* handlers finish in; the session is a function of the input, the model
\* responses and the handler outputs alone.
C6_AppendOrderDeterministic ==
  /\ appended = Flatten(turns)
  /\ session = Replay(input, {}, turns, 1, invocations)

\* After a batch of three calls that finished in reverse order, the results
\* are in the session.
C6_Witness ==
  /\ pc = "loop"
  /\ order = <<3, 2, 1>>
  /\ Len(turns) = 1
  /\ Len(turns[1].outputs) = 3
  /\ turns[1].outputs[1] # turns[1].outputs[3]

\* C7: ExecuteToolCalls returns only after every handler it started has
\* returned and every result is stored; while a handler of the batch is
\* running it does not return.
C7_Barrier ==
  [][(pc = "wait" /\ pc' # "wait") =>
       /\ \A k \in DOMAIN unit : unit[k].st = "done"
       /\ \A k \in DOMAIN results : results[k].kind = "tool_result"
       /\ results' = results]_vars

\* The barrier holds: one unit has finished while a sibling's handler runs.
C7_Witness ==
  /\ pc = "wait"
  /\ \E k \in DOMAIN unit : unit[k].st = "done"
  /\ \E k \in DOMAIN unit : unit[k].st = "running"

\* C8: in a batch with a call whose handler returns an error and a call
\* whose tool name is unknown, every other call gets a ToolResult carrying
\* its own handler's output, and there is a result for every call.
C8_Isolation ==
  (/\ Collected
   /\ \E k \in DOMAIN unit : unit[k].outcome = "error"
   /\ \E k \in DOMAIN unit : unit[k].outcome = "unknown") =>
    /\ Len(results) = Len(toolCalls)
    /\ \A k \in DOMAIN toolCalls : results[k].kind = "tool_result"
    /\ \A k \in DOMAIN toolCalls :
         unit[k].outcome = "ok" =>
           results[k] = ToolResultMessage(toolCalls[k].ID,
                          HandlerText(handlers[toolCalls[k].Name],
                                      toolCalls[k].Input))

\* A collected batch with an erroring handler, an unknown tool and a third
\* call whose handler succeeded.
C8_Witness ==
  /\ Collected
  /\ \E k \in DOMAIN unit : unit[k].outcome = "error"
  /\ \E k \in DOMAIN unit : unit[k].outcome = "unknown"
  /\ \E k \in DOMAIN unit : unit[k].outcome = "ok"

\* The text the dispatcher records for a failed call.
FailureText(call) ==
  IF call.Name \in DOMAIN handlers
    THEN StrError \o HandlerError(handlers[call.Name])
    ELSE UnknownToolOutput(call.Name)

\* C9: an unknown tool name or a handler error never makes AgentLoop return
\* an error: the loop goes on to the next model invocation, and the session
\* that invocation receives holds the failure as the text of the ToolResult
\* of that call.
C9_ToolFailuresAbsorbed ==
  /\ pc \in {"dispatch", "wait"} => err = "nil"
  /\ (pc = "loop" /\ i > 0) => (err = "nil" /\ i < maxIterations)
  /\ (pc = "invoke" /\ i > 0) =>
       \A k \in DOMAIN unit :
         unit[k].outcome \in {"error", "unknown"} =>
           /\ Len(invokedWith) >= Len(unit)
           /\ invokedWith[Len(invokedWith) - Len(unit) + k] =
                ToolResultMessage(toolCalls[k].ID, FailureText(toolCalls[k]))

\* A model invocation that follows a batch with a handler error and an
\* unknown tool.
C9_Witness ==
  /\ pc = "invoke"
  /\ i > 0
  /\ \E k \in DOMAIN unit : unit[k].outcome = "error"
  /\ \E k \in DOMAIN unit : unit[k].outcome = "unknown"

\* C10: no model invocation starts or runs while a handler of an earlier
\* batch is running: outside the wait of ExecuteToolCalls every unit of the
\* last batch has finished.
C10_OneBatchInFlight ==
  pc \in {"loop", "invoke", "dispatch", "returned"} =>
    \A k \in DOMAIN unit : unit[k].st = "done"

\* The third model invocation, after two collected batches.
C10_Witness ==
  /\ pc = "invoke"
  /\ invocations = 3
  /\ Len(unit) = 3

\* ------------------------------------------------- claims on the compactor

\* The number of assistant entries after position p of msgs.
AssistantsAfter(msgs, p) ==
  Cardinality({q \in (p + 1)..Len(msgs) : msgs[q].kind = "assistant"})

\* The text of a compactable message the compactor may shorten.
ContentOf(m) ==
  IF m.kind = "tool_call" THEN m.Input
  ELSE IF m.kind = "tool_result" THEN m.Output
  ELSE m.Content

\* The compactor returned; session is what it returned.
Compacted == pc \in {"compacted", "recompacted"}

\* The positions whose entry the compactor has shortened so far.
Shortened == {p \in DOMAIN session : session[p] # Original[p]}

\* C11: the same compactor instance applied twice in succession to the same
\* session returns, the second time, exactly the messages the first call
\* returned: no entry is truncated twice.
C11_SecondPassIdentical ==
  pc = "recompacted" => session = invokedWith

\* A second pass over a session in which the first pass shortened a tool
\* call, a tool result and a thinking entry.
C11_Witness ==
  /\ pc = "recompacted"
  /\ \E p \in Shortened : session[p].kind = "tool_call"
  /\ \E p \in Shortened : session[p].kind = "tool_result"
  /\ \E p \in Shortened : session[p].kind = "thinking"

\* C12: a Thinking, ToolCall or ToolResult entry followed by fewer than
\* assistantThreshold Assistant entries is returned as it was passed in and
\* as it was added, also when it is longer than prefixLen.
C12_BelowThresholdUntouched ==
  Compacted =>
    \A p \in DOMAIN session :
      Compactable(session[p]) /\ AssistantsAfter(session, p) < assistantThreshold
        => session[p] = invokedWith[p] /\ session[p] = Original[p]

\* The compactor shortened an entry and left alone a longer-than-prefixLen
\* tool call followed by one assistant entry.
C12_Witness ==
  /\ Compacted
  /\ Shortened # {}
  /\ \E p \in DOMAIN session :
       /\ session[p].kind = "tool_call"
       /\ Len(session[p].Input) > prefixLen
       /\ AssistantsAfter(session, p) = assistantThreshold - 1

\* C13 as stated: every entry followed by at least assistantThreshold
\* assistants and longer than prefixLen bytes holds its first prefixLen bytes
\* followed by the ellipsis, hence at most prefixLen + len("…") bytes; one of
\* at most prefixLen bytes is unchanged.
C13_PrefixPlusEllipsis ==
  Compacted =>
    \A p \in DOMAIN session :
      Compactable(session[p]) /\ AssistantsAfter(session, p) >= assistantThreshold
        => IF Len(ContentOf(Original[p])) > prefixLen
             THEN /\ ContentOf(session[p]) =
                       Prefix(ContentOf(Original[p]), prefixLen) \o Ellipsis
                  /\ Len(ContentOf(session[p])) <= prefixLen + Len(Ellipsis)
             ELSE session[p] = Original[p]

\* C13, amended: that holds of Thinking and ToolResult entries; the input of
\* such a ToolCall is the JSON string encoding of its first prefixLen bytes
\* followed by the ellipsis, which is at least two bytes longer than
\* prefixLen + len("…"); an entry of at most prefixLen bytes is unchanged.
C13_TruncatedForm ==
  Compacted =>
    \A p \in DOMAIN session :
      Compactable(session[p]) /\ AssistantsAfter(session, p) >= assistantThreshold
        => LET was == ContentOf(Original[p])
               cut == Prefix(was, prefixLen) \o Ellipsis
               now == ContentOf(session[p]) IN
           IF Len(was) <= prefixLen THEN session[p] = Original[p]
           ELSE IF session[p].kind = "tool_call"
             THEN /\ now = JsonMarshalString(cut)
                  /\ Len(now) >= prefixLen + Len(Ellipsis) + 2
             ELSE /\ now = cut
                  /\ Len(now) = prefixLen + Len(Ellipsis)

\* The compactor returned a session with a shortened thinking entry, a
\* shortened tool call and an eligible entry of exactly prefixLen bytes.
C13_Witness ==
  /\ Compacted
  /\ \E p \in Shortened : session[p].kind = "thinking"
  /\ \E p \in Shortened : session[p].kind = "tool_call"
  /\ \E p \in DOMAIN session :
       /\ session[p].kind = "thinking"
       /\ Len(session[p].Content) = prefixLen
       /\ AssistantsAfter(session, p) >= assistantThreshold

\* C14: the compactor returns as many messages as it was given, of the same
\* kind at every position; System, User and Assistant entries are unchanged
\* and ToolCall and ToolResult entries keep their id (and tool name), so that
\* only the content of a Thinking, the input of a ToolCall and the output of
\* a ToolResult may differ.
C14_ShapeKept ==
  Compacted =>
    /\ Len(session) = Len(invokedWith)
    /\ \A p \in DOMAIN session :
         LET was == invokedWith[p]
             now == session[p] IN
           /\ now.kind = was.kind
           /\ ~Compactable(was) => now = was
           /\ was.kind = "tool_call" => now.ID = was.ID /\ now.Name = was.Name
           /\ was.kind = "tool_result" => now.ID = was.ID
           /\ was.kind = "tool_call" => now = [was EXCEPT !.Input = now.Input]
           /\ was.kind = "tool_result" =>
                now = [was EXCEPT !.Output = now.Output]

\* One call of the compactor shortened a tool call and a tool result of a
\* session that starts with a system prompt.
C14_Witness ==
  /\ pc = "compacted"
  /\ \E p \in DOMAIN session :
       session[p].kind = "tool_call" /\ session[p] # invokedWith[p]
  /\ \E p \in DOMAIN session :
       session[p].kind = "tool_result" /\ session[p] # invokedWith[p]
  /\ session[1].kind = "system"

\* ----------------------------------------------- claims on AgentLoop, again

\* C15 as stated: when AgentLoop has returned, the Session value the caller
\* passed in holds the messages it held before the call.
C15_CallerSessionUntouched ==
  pc = "returned" => caller = input

\* C16: the observer is called exactly once for each appended message, model
\* responses and tool results alike, in append order, and never for a message
\* of the input session; without an observer no call is made, and the session
\* AgentLoop returns is the one the responses and handler outputs determine
\* in either case.
C16_ObserverOncePerAppended ==
  /\ logFunc => logged = appended
  /\ ~logFunc => logged = <<>>
  /\ Len(session) = Len(input) + Len(appended)
  /\ pc = "returned" => session = Replay(input, {}, turns, 1, invocations)

\* With an observer, AgentLoop returned after two batches on a session that
\* held messages before the call.
C16_Witness ==
  /\ pc = "returned"
  /\ logFunc
  /\ Len(input) > 2
  /\ i = 2
  /\ \E p \in DOMAIN logged : logged[p].kind = "tool_result"
  /\ \E p \in DOMAIN logged : logged[p].kind = "thinking"

\* The tool batches dispatched so far.
BatchesDispatched == i + (IF pc = "wait" THEN 1 ELSE 0)

\* The limit the options ask for: n of WithMaxIterations(n), else 30.
Limit ==
  IF withMaxIterations = <<>> THEN DefaultMaxIterations
  ELSE withMaxIterations[1]

Max0(n) == IF n < 0 THEN 0 ELSE n

\* C17 as stated: the model is invoked at most maxIterations times (30 when
\* WithMaxIterations is not given) and at most maxIterations - 1 tool batches
\* are dispatched.
C17_AtMostMaxIterations ==
  /\ invocations <= Limit
  /\ BatchesDispatched <= Limit - 1

\* C17, amended: the model is invoked at most max(maxIterations, 0) times and
\* at most max(maxIterations - 1, 0) tool batches are dispatched, where
\* maxIterations is 30 when WithMaxIterations is not given.
C17_AtMostMaxIterationsOrNone ==
  /\ invocations <= Max0(Limit)
  /\ BatchesDispatched <= Max0(Limit - 1)

\* AgentLoop, called without options, returned at the limit: 30 invocations
\* and 29 batches.
C17_Witness ==
  /\ pc = "returned"
  /\ withMaxIterations = <<>>
  /\ err = "maxiter"
  /\ invocations = DefaultMaxIterations
  /\ BatchesDispatched = DefaultMaxIterations - 1

\* C18: when the invocation fails AgentLoop returns the invoker's error
\* itself, with the session the invoker was given; in that iteration no
\* message was appended, no handler ran and the observer was not called.
C18_InvokeErrorReturnsAtOnce ==
  pc = "returned" /\ invokeFailed =>
    /\ err = "invoke"
    /\ errValue = invokeErr
    /\ errValue \in InvokeErrors
    /\ session = invokedWith
    /\ Len(turns) = invocations - 1
    /\ appended = Flatten(turns)
    /\ Len(logged) = IF logFunc THEN Len(Flatten(turns)) ELSE 0
    /\ \A r \in BagToSet(handlerRuns) : r.iter < invocations - 1

\* The third invocation failed, with an observer set, after two batches in
\* which handlers ran.
C18_Witness ==
  /\ pc = "returned"
  /\ invokeFailed
  /\ logFunc
  /\ invocations = 3
  /\ \E r \in BagToSet(handlerRuns) : r.iter = 1
  /\ session # Original

\* C19: each ToolCall of a batch causes exactly one invocation of the handler
\* registered under its name, with its input, and none when the name is
\* unknown, also when calls share a name or an id; no other handler
\* invocation happens.
C19_OneHandlerRunPerCall ==
  /\ \A r \in BagToSet(handlerRuns) :
       /\ CopiesIn(r, handlerRuns) = 1
       /\ r.idx \in DOMAIN toolCalls
       /\ toolCalls[r.idx].Name \in DOMAIN handlers
       /\ r.handler = handlers[toolCalls[r.idx].Name]
       /\ r.input = toolCalls[r.idx].Input
       /\ r.id = toolCalls[r.idx].ID
  /\ \A k \in DOMAIN unit :
       Cardinality({r \in BagToSet(handlerRuns) : r.idx = k}) =
         IF unit[k].st # "spawned" /\ toolCalls[k].Name \in DOMAIN handlers
           THEN 1 ELSE 0

\* A batch of two calls with the same id and the same name is done: the
\* handler ran twice.
C19_Witness ==
  /\ Collected
  /\ Len(toolCalls) = 2
  /\ toolCalls[1] = toolCalls[2]
  /\ BagCardinality(handlerRuns) = 2

\* The ids of the tool calls in msgs.
CallIDs(msgs) ==
  {msgs[p].ID : p \in {q \in DOMAIN msgs : msgs[q].kind = "tool_call"}}

\* C20: only the ToolCalls of the current iteration's response are
\* dispatched: every handler invocation belongs to a call of the response of
\* its iteration, tool calls of the input session or of earlier turns are
\* not dispatched again, and each call of a response is dispatched at most
\* once.
C20_OnlyThisTurnDispatched ==
  /\ pc \in {"dispatch", "wait"} =>
       /\ newMsgs = turns[Len(turns)].response
       /\ toolCalls = CollectToolCalls(newMsgs)
  /\ \A r \in BagToSet(handlerRuns) :
       /\ CopiesIn(r, handlerRuns) = 1
       /\ r.iter + 1 \in DOMAIN turns
       /\ LET calls == CollectToolCalls(turns[r.iter + 1].response) IN
            /\ r.idx \in DOMAIN calls
            /\ r.id = calls[r.idx].ID
            /\ r.input = calls[r.idx].Input
            /\ r.handler = handlers[calls[r.idx].Name]
       /\ r.id \notin CallIDs(input)

\* AgentLoop returned after two batches whose handlers ran, on an input
\* session that held a tool call.
C20_Witness ==
  /\ pc = "returned"
  /\ CallIDs(input) # {}
  /\ \E r \in BagToSet(handlerRuns) : r.iter = 0
  /\ \E r \in BagToSet(handlerRuns) : r.iter = 1

\* C21 as stated: the context AgentLoop was called with is the context of
\* every model invocation and is among the arguments of every handler call.
C21_ContextThreaded ==
  /\ invocations > 0 => invokedCtx = Ctx
  /\ \A r \in BagToSet(handlerRuns) :
       "ctx" \in DOMAIN r.args /\ r.args.ctx = Ctx

\* The half of C21 that holds: every model invocation receives the context.
C21_InvokerGetsContext ==
  invocations > 0 => invokedCtx = Ctx

\* The handler of call k of the batch, when its name is registered.
HandlerOfCall(k) == handlers[toolCalls[k].Name]

\* C22 as stated: the output of each result is the handler's text when the
\* handler succeeded, "Error: " and the error's message when it failed, and
\* "Error: unknown tool " followed by the call's tool name when no handler is
\* registered under the name.
C22_OutputTexts ==
  Collected =>
    \A k \in DOMAIN toolCalls :
      results[k].Output =
        IF unit[k].outcome = "ok"
          THEN HandlerText(HandlerOfCall(k), toolCalls[k].Input)
        ELSE IF unit[k].outcome = "error"
          THEN StrError \o HandlerError(HandlerOfCall(k))
        ELSE StrError \o StrUnknownTool \o toolCalls[k].Name

\* C22, amended: as stated for a handler that succeeded or failed; for an
\* unknown name the output is "Error: unknown tool " followed by the name as
\* a quoted Go string (%q): between double quotes, with quote and backslash
\* escaped.
C22_OutputTextsQuotedName ==
  Collected =>
    \A k \in DOMAIN toolCalls :
      /\ unit[k].outcome = "unknown" <=> toolCalls[k].Name \notin DOMAIN handlers
      /\ results[k].Output =
           IF unit[k].outcome = "ok"
             THEN HandlerText(HandlerOfCall(k), toolCalls[k].Input)
           ELSE IF unit[k].outcome = "error"
             THEN StrError \o HandlerError(HandlerOfCall(k))
           ELSE StrError \o StrUnknownTool \o <<"\"">>
                  \o EscapeString(toolCalls[k].Name) \o <<"\"">>

\* A collected batch with a handler that succeeded on a long input, one that
\* failed and an unknown tool.
C22_Witness ==
  /\ Collected
  /\ Len(toolCalls) = 3
  /\ unit[1].outcome = "error"
  /\ unit[2].outcome = "unknown"
  /\ unit[3].outcome = "ok"
  /\ results[3].Output = LongObject

\* ------------------------------------------- serialization, on its own

\* The longest session that is serialized.
MaxJsonLen == 2

TextQuote    == <<"a", "\"", "\\", "b">>
TextInvalid  == <<"x", "ff">>
SpacedObject == <<"{", "\"", "a", "\"", ":", " ", "1", "}">>
NilInput     == <<>>

\* The messages serialized sessions are made of: the six kinds, text with a
\* quote and a backslash, text with a byte that is not valid UTF-8, and tool
\* calls whose input is the empty object, an object written with a space,
\* and nil.
JsonEntries ==
  { SystemMessage(TextSys),
    UserMessage(TextUser),
    AssistantMessage(TextQuote),
    ThinkingMessage(TextHi),
    ThinkingMessage(TextInvalid),
    ToolCallMessage(<<"c", "1">>, NameAdd, EmptyObject),
    ToolCallMessage(<<"c", "1">>, NameAdd, SpacedObject),
    ToolCallMessage(<<"c", "1">>, NameAdd, NilInput),
    ToolResultMessage(<<"c", "1">>, TextQuote) }

JsonSessions ==
  UNION { [1..n -> JsonEntries] : n \in 0..MaxJsonLen }

TextBogus == <<"b", "o", "g", "u", "s">>

\* Records that no MarshalJSON of this package wrote: without role and type,
\* with an unknown role or type, with an unknown role next to a known type,
\* with a known role next to a known type, and with an empty role.
ForeignRecords ==
  { << Member("content", JsonMarshalString(TextHi)) >>,
    << Member("role", JsonMarshalString(TextBogus)),
       Member("content", JsonMarshalString(TextHi)) >>,
    << Member("type", JsonMarshalString(TextBogus)),
       Member("content", JsonMarshalString(TextHi)) >>,
    << Member("role", JsonMarshalString(TextBogus)),
       Member("type", JsonMarshalString(KindThinking)),
       Member("content", JsonMarshalString(TextHi)) >>,
    << Member("role", JsonMarshalString(KindUser)),
       Member("type", JsonMarshalString(KindToolCall)),
       Member("content", JsonMarshalString(TextHi)) >>,
    << Member("role", JsonMarshalString(<<>>)),
       Member("type", JsonMarshalString(KindToolResult)),
       Member("id", JsonMarshalString(<<"c", "1">>)),
       Member("output", JsonMarshalString(TextHi)) >> }

\* The arrays read from elsewhere: one foreign record, alone or after a
\* record of a user message.
ForeignArrays ==
  { <<r>> : r \in ForeignRecords }
    \cup { <<MarshalMessage(UserMessage(TextUser)), r>> : r \in ForeignRecords }

Schemas ==
  { ToolInputSchema(<<"o", "b", "j">>, ps, rs) :
      ps \in { Collection(TRUE, <<>>), Collection(FALSE, <<>>),
               Collection(FALSE, <<TextHi>>) },
      rs \in { Collection(TRUE, <<>>), Collection(FALSE, <<>>),
               Collection(FALSE, <<TextHi>>) } }

\* A session has been built; the Session value that will be unmarshaled
\* into is empty or holds a message.
InitJson ==
  /\ tools = <<>>
  /\ model = "free"
  /\ withMaxIterations = <<>>
  /\ maxIterations = 0
  /\ compactFunc = FALSE
  /\ logFunc = FALSE
  /\ input = <<>>
  /\ session \in JsonSessions
  /\ caller = <<>>
  /\ aliased = FALSE
  /\ compacted = {}
  /\ i = 0
  /\ pc = "built"
  /\ err = "nil"
  /\ invokeErr = ErrNil
  /\ errValue = ErrNil
  /\ invokedCtx = NoCtx
  /\ invokedDefs = <<>>
  /\ system = <<>>
  /\ messages = <<>>
  /\ wire = <<>>
  /\ decoded \in {<<>>, <<AssistantMessage(TextHi)>>}
  /\ decodeErr = <<>>
  /\ schema = ToolInputSchema(<<>>, Collection(TRUE, <<>>),
                              Collection(TRUE, <<>>))
  /\ schemaWire = <<>>
  /\ newMsgs = <<>>
  /\ toolCalls = <<>>
  /\ results = <<>>
  /\ unit = <<>>
  /\ wg = 0
  /\ order = <<>>
  /\ invokedWith = <<>>
  /\ invocations = 0
  /\ invokeFailed = FALSE
  /\ handlerRuns = EmptyBag
  /\ appended = <<>>
  /\ logged = <<>>
  /\ turns = <<>>

loop == <<session, compacted, i, err, newMsgs, invokedWith, invocations,
          invokeFailed, handlerRuns, appended, logged, turns>>

\* data, _ := json.Marshal(session)
MarshalStep ==
  /\ pc = "built"
  /\ wire' = MarshalSession(session)
  /\ pc' = "marshaled"
  /\ UNCHANGED <<config, invokerArgs, request, alias, failure, batch, loop, decoded,
                 decodeErr, schema, schemaWire>>

\* data comes from elsewhere.
Receive(array) ==
  /\ pc = "built"
  /\ wire' = array
  /\ pc' = "received"
  /\ UNCHANGED <<config, invokerArgs, request, alias, failure, batch, loop, decoded,
                 decodeErr, schema, schemaWire>>

\* err := json.Unmarshal(data, &s), which calls s.UnmarshalJSON(data).
UnmarshalStep ==
  /\ pc \in {"marshaled", "received"}
  /\ LET r == UnmarshalSession(wire) IN
       /\ decoded' = r.Messages
       /\ decodeErr' = r.err
  /\ pc' = IF pc = "marshaled" THEN "roundtrip" ELSE "decoded"
  /\ UNCHANGED <<config, invokerArgs, request, alias, failure, batch, loop, wire,
                 schema, schemaWire>>

\* json.Marshal(schema)
MarshalSchemaStep(sc) ==
  /\ pc = "built"
  /\ schema' = sc
  /\ schemaWire' = MarshalSchema(sc)
  /\ pc' = "schema_marshaled"
  /\ UNCHANGED <<config, invokerArgs, request, alias, failure, batch, loop, wire,
                 decoded, decodeErr>>

NextJson ==
  \/ MarshalStep
  \/ \E array \in ForeignArrays : Receive(array)
  \/ UnmarshalStep
  \/ \E sc \in Schemas : MarshalSchemaStep(sc)

SpecJson == InitJson /\ [][NextJson]_vars

\* --------------------------------------------------- claims on serialization

\* Whether text holds no byte that is not valid UTF-8.
ValidUTF8(text) == \A k \in DOMAIN text : text[k] # "ff"

\* Whether a ToolCall input is JSON text as json.Marshal writes it.
IsCompact(raw) == raw # <<>> /\ \A k \in DOMAIN raw : raw[k] # " "

\* Whether every field of m comes back from the serialized form as it is.
Canonical(m) ==
  IF m.kind = "tool_call"
    THEN ValidUTF8(m.ID) /\ ValidUTF8(m.Name) /\ IsCompact(m.Input)
  ELSE IF m.kind = "tool_result"
    THEN ValidUTF8(m.ID) /\ ValidUTF8(m.Output)
  ELSE ValidUTF8(m.Content)

ValidTexts(m) ==
  IF m.kind = "tool_call" THEN ValidUTF8(m.ID) /\ ValidUTF8(m.Name)
  ELSE IF m.kind = "tool_result" THEN ValidUTF8(m.ID) /\ ValidUTF8(m.Output)
  ELSE ValidUTF8(m.Content)

Recognized(object) ==
  \/ /\ StringField(object, "role") \in {KindSystem, KindUser, KindAssistant}
     /\ StringField(object, "type") = <<>>
  \/ /\ StringField(object, "type") \in
          {KindThinking, KindToolCall, KindToolResult}
     /\ StringField(object, "role") = <<>>

\* C24 as stated: UnmarshalMessage returns a message only for a record with
\* one of the six recognized discriminators, and for every other record an
\* error that names the record's role and type.
C24_UnknownDiscriminatorFails ==
  pc = "decoded" /\ Len(wire) = 1 =>
    IF Recognized(wire[1])
      THEN decodeErr = <<>> /\ Len(decoded) = 1
      ELSE /\ decoded = <<>>
           /\ decodeErr = DiscriminatorError(StringField(wire[1], "role"),
                                             StringField(wire[1], "type"))

\* C25: the serialized ToolInputSchema has no properties member when
\* Properties is nil or empty and no required member when Required is nil or
\* empty, so neither null nor an empty collection is written for them; a
\* collection with entries is written.
C25_EmptySchemaFieldsOmitted ==
  pc = "schema_marshaled" =>
    /\ Has(schemaWire, "type")
    /\ Has(schemaWire, "properties") <=> Len(schema.Properties.items) > 0
    /\ Has(schemaWire, "required") <=> Len(schema.Required.items) > 0
    /\ \A p \in DOMAIN schemaWire :
         schemaWire[p].text \notin {JsonNull, <<"{", "}">>, <<"[", "]">>}

\* A schema with an empty, non-nil Properties map and a nil Required slice
\* was serialized.
C25_Witness ==
  /\ pc = "schema_marshaled"
  /\ ~schema.Properties.isNil
  /\ schema.Properties.items = <<>>
  /\ schema.Required.isNil
  /\ Len(schemaWire) = 1

\* ------------------------------------------------------------- termination

\* AgentLoop with every step eventually taken: the model invocation returns
\* (with messages or with an error), every goroutine of a batch is scheduled
\* and every handler returns.
SpecLive == Init /\ [][Next]_vars /\ WF_vars(Next)

\* C26: if every model invocation and every tool handler returns, AgentLoop
\* configured with maxIterations >= 1 eventually returns, with a nil error or
\* a non-nil one, after at least one and at most maxIterations model
\* invocations, also when every response holds tool calls.
C26_EventuallyReturns ==
  (maxIterations >= 1) ~>
    (/\ pc = "returned"
     /\ err \in {"nil", "invoke", "maxiter"}
     /\ invocations >= 1
     /\ invocations <= maxIterations)

\* AgentLoop returned the limit error after MaxIter responses with tool
\* calls.
C26_Witness ==
  /\ pc = "returned"
  /\ maxIterations = MaxIter
  /\ invocations = MaxIter
  /\ err = "maxiter"
  /\ \A t \in DOMAIN turns : CollectToolCalls(turns[t].response) # <<>>

\* ------------------------------------------------- pairing of calls, results

\* The position in the session before the first message of turn t (the turns
\* before it are finished: each holds its response and one result per call).
TurnStart(t) == Len(input) + Len(Flatten(SubSeq(turns, 1, t - 1)))

\* The positions of the session the invoker received that hold a ToolCall
\* appended in this call of AgentLoop.
AppendedCalls ==
  {p \in DOMAIN invokedWith :
     p > Len(input) /\ invokedWith[p].kind = "tool_call"}

\* The positions after p of the session the invoker received that hold a
\* ToolResult with the id of the entry at p.
ResultsFor(p) ==
  {q \in DOMAIN invokedWith :
     /\ q > p
     /\ invokedWith[q].kind = "tool_result"
     /\ invokedWith[q].ID = invokedWith[p].ID}

\* The positions of the results of turn t in the session.
ResultPositions(t) ==
  LET from == TurnStart(t) + Len(turns[t].response) IN
    (from + 1)..(from + Len(CollectToolCalls(turns[t].response)))

\* Every ToolResult appended in this call is a result of one turn and has
\* the id of a ToolCall of that turn's response.
ResultsAnswerPrecedingResponse ==
  \A q \in DOMAIN invokedWith :
    (q > Len(input) /\ invokedWith[q].kind = "tool_result") =>
      \E t \in DOMAIN turns :
        /\ q \in ResultPositions(t)
        /\ invokedWith[q].ID \in CallIDs(turns[t].response)

\* C27 as stated: at every model invocation after the first, each ToolCall
\* appended earlier in this call is followed in the session by exactly one
\* ToolResult with the same id, and every ToolResult appended by the loop
\* has the id of a ToolCall of the immediately preceding model response.
C27_EachCallAnsweredOnce ==
  (pc = "invoke" /\ invocations > 1) =>
    /\ \A p \in AppendedCalls : Cardinality(ResultsFor(p)) = 1
    /\ ResultsAnswerPrecedingResponse

\* C27, amended: at every model invocation after the first, the session the
\* invoker receives holds, after the input, the turns in order: each response
\* and right after it one ToolResult per ToolCall of that response, in call
\* order and with the call's id, and nothing else; so every appended
\* ToolResult has the id of a ToolCall of the immediately preceding response,
\* every appended ToolCall is followed by at least one ToolResult of its id,
\* and by exactly one when the model gave every ToolCall of this call an id
\* of its own.
C27_EachCallAnsweredInPlace ==
  (pc = "invoke" /\ invocations > 1) =>
    /\ TurnStart(Len(turns) + 1) = Len(invokedWith)
    /\ \A t \in DOMAIN turns :
         LET resp == turns[t].response
             calls == CollectToolCalls(resp)
             from == TurnStart(t) + Len(resp) IN
           /\ Len(calls) >= 1
           /\ \A j \in DOMAIN resp :
                /\ invokedWith[TurnStart(t) + j].kind = resp[j].kind
                /\ resp[j].kind = "tool_call"
                     => invokedWith[TurnStart(t) + j].ID = resp[j].ID
           /\ \A k \in DOMAIN calls :
                /\ invokedWith[from + k].kind = "tool_result"
                /\ invokedWith[from + k].ID = calls[k].ID
    /\ ResultsAnswerPrecedingResponse
    /\ \A p \in AppendedCalls : Cardinality(ResultsFor(p)) >= 1
    /\ (\A p, q \in AppendedCalls :
          p # q => invokedWith[p].ID # invokedWith[q].ID)
         => \A p \in AppendedCalls : Cardinality(ResultsFor(p)) = 1

\* The third invocation, after a batch of three calls and a batch of one
\* call with an id of its own: four appended calls, each with one result.
C27_Witness ==
  /\ pc = "invoke"
  /\ invocations = 3
  /\ Len(turns) = 2
  /\ turns[1].response = RespTriple
  /\ turns[2].response = RespThink
  /\ Cardinality(AppendedCalls) = 4
  /\ \A p \in AppendedCalls : Cardinality(ResultsFor(p)) = 1

\* ------------------------------------------------ compaction in the iteration

\* The step from the head of an iteration to the model invocation.
IterationHead == pc = "loop" /\ pc' = "invoke"

\* C28: in every iteration the configured compactor is applied exactly once,
\* before the model invocation, and the invoker receives its output: the step
\* to the invocation hands the invoker defaultCompactor's messages for the
\* accumulated session and advances the closure's index set by that one call,
\* and no other step rewrites an entry, advances the index set or invokes the
\* model.  With a nil compactor the invoker receives the accumulated session
\* unchanged: the input followed by everything appended.
C28_CompactedOncePerIteration ==
  /\ []((pc = "invoke" /\ ~compactFunc) =>
          /\ invokedWith = input \o appended
          /\ compacted = {})
  /\ [][IF IterationHead
          THEN /\ invocations' = invocations + 1
               /\ session' = invokedWith'
               /\ IF compactFunc
                    THEN LET c == defaultCompactor(session, compacted) IN
                           /\ invokedWith' = c.Messages
                           /\ compacted' = c.compacted
                    ELSE /\ invokedWith' = session
                         /\ compacted' = compacted
          ELSE /\ invocations' = invocations
               /\ invokedWith' = invokedWith
               /\ compacted' = compacted
               /\ Len(session') >= Len(session)
               /\ SubSeq(session', 1, Len(session)) = session]_vars

\* The third invocation with the default compactor, which shortened an
\* entry of the first turn: the invoker has the compacted session, not the
\* accumulated one.
C28_Witness ==
  /\ pc = "invoke"
  /\ compactFunc
  /\ invocations = 3
  /\ input = InitSession(TextSys, TextUser)
  /\ invokedWith = session
  /\ invokedWith # input \o appended
  /\ compacted # {}

\* ------------------------------------------------------- age of an entry

\* The turn whose response or results hold position p of the session.
TurnOf(p) ==
  CHOOSE t \in DOMAIN turns :
    /\ TurnStart(t) < p
    /\ t = Len(turns) \/ p <= TurnStart(t + 1)

\* The positions of entries appended in this run that compaction altered.
Altered ==
  {p \in DOMAIN session :
     p > Len(input) /\ session[p] # (input \o appended)[p]}

\* C29: with the default compactor, a Thinking, ToolCall or ToolResult entry
\* is altered by compaction only after at least two full model turns later
\* than the turn that produced it have been appended; entries of the most
\* recent model turn and its tool results are never altered, whatever the
\* mix of messages in a response.
C29_OnlyOldTurnsCompacted ==
  compactFunc =>
    \A p \in Altered :
      /\ session[p].kind \in {"thinking", "tool_call", "tool_result"}
      /\ TurnOf(p) < Len(turns)
      /\ Len(turns) >= TurnOf(p) + 2

\* ------------------------------------------------- JSON type of the inputs

\* Whether raw is the text of a JSON object (for the inputs of the model:
\* well-formed JSON, which is an object exactly when it starts with a brace).
IsJsonObject(raw) ==
  /\ raw # <<>>
  /\ raw[1] = "{"
  /\ raw[Len(raw)] = "}"

\* The input session and every response the model may give carry JSON-object
\* inputs.
ObjectInputsGiven ==
  /\ \A p \in DOMAIN input :
       input[p].kind = "tool_call" => IsJsonObject(input[p].Input)
  /\ \A resp \in ModelResponses(model) : \A p \in DOMAIN resp :
       resp[p].kind = "tool_call" => IsJsonObject(resp[p].Input)

\* C30: whenever the model invoker is called, every ToolCall entry of the
\* session it receives carries an input that is a JSON object, provided the
\* input session and all model responses carry JSON-object inputs: compaction
\* does not turn a ToolCall input into another JSON type.
C30_InvokerGetsObjectInputs ==
  (pc = "invoke" /\ ObjectInputsGiven) =>
    \A p \in DOMAIN invokedWith :
      invokedWith[p].kind = "tool_call" => IsJsonObject(invokedWith[p].Input)

\* ----------------------------------------------------- finalized positions

\* C31: over any sequence of calls of one compactor instance on a session
\* that only grows by appends, a finalized position (one in the closure's
\* index set: truncated, or visited while eligible and short) is never
\* changed by a later step and stays finalized; an entry differs from what
\* was appended only at a finalized position, so each entry is rewritten at
\* most once and the compacted prefix stays byte-identical while messages
\* are appended.
C31_FinalizedNeverChanged ==
  /\ [](Shortened \subseteq compacted /\ compacted \subseteq DOMAIN session)
  /\ [][/\ \A p \in compacted :
             /\ p \in compacted'
             /\ p \in DOMAIN session'
             /\ session'[p] = session[p]
        /\ \A p \in DOMAIN session :
             /\ p \in DOMAIN session'
             /\ session'[p] # session[p] =>
                  /\ session[p] = Original[p]
                  /\ p \in compacted' \ compacted]_vars

\* A call of the compactor that follows an append, on a session in which an
\* earlier call had truncated a tool call and finalized a short thinking
\* entry: both are as the earlier call left them.
C31_Witness ==
  /\ pc = "compacted"
  /\ Len(session) = MaxLen
  /\ \E p \in Shortened :
       /\ session[p].kind = "tool_call"
       /\ invokedWith[p] = session[p]
  /\ \E p \in compacted \ Shortened :
       /\ session[p] = ThinkingMessage(AtLimit)
       /\ invokedWith[p] = session[p]

\* --------------------------------------------------- duplicate tool names

\* The position of the last tool of the list with the name n.
LastOfName(n) ==
  CHOOSE k \in DOMAIN tools :
    /\ tools[k].Name = n
    /\ \A j \in DOMAIN tools : tools[j].Name = n => j <= k

\* Whether two tools of the list have the same name.
DuplicateNames ==
  \E j, k \in DOMAIN tools : j # k /\ tools[j].Name = tools[k].Name

\* C32: when two tools of the list have the same name, every tool call with
\* that name is dispatched to the handler of the tool that appears later in
\* the list, no error is reported at registration (the loop starts and
\* returns only with nil, the invoker's error or the limit error), and the
\* invoker is passed one definition per tool of the list, in list order,
\* both definitions of the shared name included.
C32_LaterToolShadows ==
  /\ pc \in {"loop", "invoke", "dispatch", "wait", "returned"}
  /\ err \in {"nil", "invoke", "maxiter"}
  /\ pc = "returned" /\ invocations = 0 => maxIterations <= 0
  /\ invocations > 0 =>
       /\ Len(invokedDefs) = Len(tools)
       /\ \A k \in DOMAIN tools : invokedDefs[k] = tools[k].Name
  /\ \A r \in BagToSet(handlerRuns) :
       LET call == CollectToolCalls(turns[r.iter + 1].response)[r.idx] IN
         r.handler = tools[LastOfName(call.Name)].Handler

\* A call of the doubly registered name was dispatched: its handler is the
\* one of the second tool, and the invoker got both definitions.
C32_Witness ==
  /\ DuplicateNames
  /\ tools[1].Name = NameAdd /\ tools[2].Name = NameAdd
  /\ invokedDefs = <<NameAdd, NameAdd>>
  /\ pc = "returned"
  /\ err = "nil"
  /\ \E r \in BagToSet(handlerRuns) :
       /\ r.handler = tools[2].Handler
       /\ r.handler # tools[1].Handler

\* ------------------------------------------------- handlers that rendezvous

\* Tools of which one handler returns only after a sibling's handler was
\* called.
ToolListsWait ==
  { <<Tool(NameAdd, "addHandler"), Tool(NameEcho, "waitHandler")>> }

\* Batches with a waiting call before and after the call it waits for, with
\* two calls that wait for each other, and with a third call between them.
CallListsWait ==
  { << ToolCallMessage("c1", NameEcho, EmptyObject),
       ToolCallMessage("c2", NameAdd, EmptyObject) >>,
    << ToolCallMessage("c1", NameAdd, EmptyObject),
       ToolCallMessage("c2", NameEcho, EmptyObject) >>,
    << ToolCallMessage("c1", NameEcho, EmptyObject),
       ToolCallMessage("c2", NameEcho, EmptyObject) >>,
    << ToolCallMessage("c1", NameEcho, EmptyObject),
       ToolCallMessage("c2", NameNope, EmptyObject),
       ToolCallMessage("c3", NameAdd, EmptyObject) >> }

InitWait ==
  /\ tools \in ToolListsWait
  /\ toolCalls \in CallListsWait
  /\ ExecStart

\* ExecuteToolCalls on such a batch: every goroutine is scheduled, and a
\* handler that can return does.
SpecWait == InitWait /\ [][NextExec]_vars /\ WF_vars(NextExec)

\* C33: the handlers of one batch run concurrently: a batch in which one
\* handler can return only after a sibling handler of the batch has started
\* or returned still completes, whichever of the two calls comes first, with
\* a result for every call.
C33_BatchCompletes ==
  <>(/\ pc = "exec_returned"
     /\ Len(results) = Len(toolCalls)
     /\ \A k \in DOMAIN results : results[k].kind = "tool_result")

\* All handlers of a batch are running at once, the waiting one first in the
\* batch.
C33_Witness ==
  /\ pc = "wait"
  /\ Len(unit) = 2
  /\ HandlerFor(handlers, toolCalls[1].Name).handler = "waitHandler"
  /\ HandlerFor(handlers, toolCalls[2].Name).handler = "addHandler"
  /\ \A k \in DOMAIN unit : unit[k].st = "running"

\* --------------------------------------------------------------- buildParams

RoleUser      == "user"
RoleAssistant == "assistant"

\* toBlock: the role and content block of a message, ok = FALSE for the
\* messages that are left out of the request.
toBlock(msg) ==
  IF msg.kind = "user"
    THEN [ok |-> TRUE, role |-> RoleUser,
          block |-> [type |-> "text", text |-> msg.Content]]
  ELSE IF msg.kind = "assistant"
    THEN [ok |-> TRUE, role |-> RoleAssistant,
          block |-> [type |-> "text", text |-> msg.Content]]
  ELSE IF msg.kind = "tool_call"
    THEN [ok |-> TRUE, role |-> RoleAssistant,
          block |-> [type |-> "tool_use", id |-> msg.ID, input |-> msg.Input,
                     name |-> msg.Name]]
  ELSE IF msg.kind = "tool_result"
    THEN [ok |-> TRUE, role |-> RoleUser,
          block |-> [type |-> "tool_result", id |-> msg.ID,
                     content |-> msg.Output]]
  ELSE [ok |-> FALSE, role |-> "", block |-> [type |-> "none"]]

\* A variant of SameRoleAsLast that never merges.
SameRoleAsLastNever(trn, role) == FALSE

\* len(turns) > 0 && turns[len(turns)-1].Role == role
SameRoleAsLast(trn, role) == Len(trn) > 0 /\ trn[Len(trn)].Role = role

\* The loop of buildParams over the messages not yet converted, with the
\* system blocks and the turns built so far.
RECURSIVE buildParamsFrom(_, _, _)
buildParamsFrom(msgs, sys, trn) ==
  IF msgs = <<>> THEN [system |-> sys, turns |-> trn]
  ELSE LET msg == Head(msgs)
           b == toBlock(msg) IN
    IF msg.kind = "system"
      THEN buildParamsFrom(Tail(msgs),
                           Append(sys, [type |-> "text", text |-> msg.Content]),
                           trn)
    ELSE IF ~b.ok THEN buildParamsFrom(Tail(msgs), sys, trn)
    ELSE IF SameRoleAsLast(trn, b.role)
      THEN buildParamsFrom(Tail(msgs), sys,
             [trn EXCEPT ![Len(trn)].Content = Append(@, b.block)])
    ELSE buildParamsFrom(Tail(msgs), sys,
             Append(trn, [Role |-> b.role, Content |-> <<b.block>>]))

buildParams(msgs) == buildParamsFrom(msgs, <<>>, <<>>)

\* The sessions buildParams is applied to: up to MaxParamsLen messages, each
\* of any of the six kinds.
MaxParamsLen == 4

ParamEntries ==
  { SystemMessage(TextSys), UserMessage(TextUser), AssistantMessage(TextHi),
    ThinkingMessage(TextHi), ToolCallMessage("c1", NameAdd, EmptyObject),
    ToolResultMessage("c1", TextHi) }

ParamSessions ==
  UNION {[1..n -> ParamEntries] : n \in 0..MaxParamsLen}

InitParams ==
  /\ tools = <<>>
  /\ model = "free"
  /\ withMaxIterations = <<>>
  /\ maxIterations = 0
  /\ compactFunc = FALSE
  /\ logFunc = FALSE
  /\ input = <<>>
  /\ session \in ParamSessions
  /\ caller = <<>>
  /\ aliased = FALSE
  /\ compacted = {}
  /\ i = 0
  /\ pc = "session"
  /\ err = "nil"
  /\ invokeErr = ErrNil
  /\ errValue = ErrNil
  /\ invokedCtx = NoCtx
  /\ invokedDefs = <<>>
  /\ system = <<>>
  /\ messages = <<>>
  /\ CodecIdle
  /\ newMsgs = <<>>
  /\ toolCalls = <<>>
  /\ results = <<>>
  /\ unit = <<>>
  /\ wg = 0
  /\ order = <<>>
  /\ invokedWith = <<>>
  /\ invocations = 0
  /\ invokeFailed = FALSE
  /\ handlerRuns = EmptyBag
  /\ appended = <<>>
  /\ logged = <<>>
  /\ turns = <<>>

\* system, messages := buildParams(session)
BuildParamsStep ==
  /\ pc = "session"
  /\ system' = buildParams(session).system
  /\ messages' = buildParams(session).turns
  /\ pc' = "params"
  /\ UNCHANGED <<config, codec, invokerArgs, alias, failure, batch, loop>>

NextParams == BuildParamsStep

SpecParams == InitParams /\ [][NextParams]_vars

\* The blocks of the turns, in order.
RECURSIVE Blocks(_)
Blocks(trn) ==
  IF trn = <<>> THEN <<>> ELSE Head(trn).Content \o Blocks(Tail(trn))

\* The roles of the blocks of the turns, in order.
RECURSIVE BlockRoles(_)
BlockRoles(trn) ==
  IF trn = <<>> THEN <<>>
  ELSE [k \in DOMAIN Head(trn).Content |-> Head(trn).Role]
         \o BlockRoles(Tail(trn))

\* The messages of the session that are neither System nor Thinking.
Spoken ==
  SelectSeq(session, LAMBDA m : m.kind \notin {"system", "thinking"})

\* C34: buildParams converts a session into turns of which no two adjacent
\* ones have the same role: the System messages, and only they, are the
\* system blocks, in order; Thinking messages are left out; the blocks of
\* the turns are, in the session's order, one per other message, a text or
\* tool_result block of role user for User and ToolResult, a text or tool_use
\* block of role assistant for Assistant and ToolCall; no turn is empty.
C34_TurnsAlternate ==
  pc = "params" =>
    /\ \A t \in DOMAIN messages :
         /\ messages[t].Content # <<>>
         /\ messages[t].Role \in {RoleUser, RoleAssistant}
         /\ t > 1 => messages[t].Role # messages[t - 1].Role
    /\ system = [k \in DOMAIN SelectSeq(session, LAMBDA m : m.kind = "system")
                   |-> [type |-> "text",
                        text |-> SelectSeq(session,
                                   LAMBDA m : m.kind = "system")[k].Content]]
    /\ Len(Blocks(messages)) = Len(Spoken)
    /\ \A k \in DOMAIN Spoken :
         LET m == Spoken[k]
             b == Blocks(messages)[k]
             r == BlockRoles(messages)[k] IN
           /\ m.kind = "user" =>
                r = RoleUser /\ b = [type |-> "text", text |-> m.Content]
           /\ m.kind = "assistant" =>
                r = RoleAssistant /\ b = [type |-> "text", text |-> m.Content]
           /\ m.kind = "tool_call" =>
                /\ r = RoleAssistant
                /\ b = [type |-> "tool_use", id |-> m.ID, input |-> m.Input,
                        name |-> m.Name]
           /\ m.kind = "tool_result" =>
                /\ r = RoleUser
                /\ b = [type |-> "tool_result", id |-> m.ID,
                        content |-> m.Output]

\* A session of a thinking entry, an assistant text, a tool call and its
\* result gives two turns: the text and the tool call share the assistant
\* turn, the thinking entry is in neither.
C34_Witness ==
  /\ pc = "params"
  /\ Len(session) = 4
  /\ session[1].kind = "thinking"
  /\ session[2].kind = "assistant"
  /\ session[3].kind = "tool_call"
  /\ session[4].kind = "tool_result"
  /\ Len(messages) = 2
  /\ Len(messages[1].Content) = 2
  /\ messages[1].Role = RoleAssistant
  /\ messages[2].Role = RoleUser

\* ------------------------------------------------ inputs the handlers get

\* C35: each tool handler receives the input exactly as the model returned
\* it in the current turn: the input of every handler invocation is the
\* Input of its call in the response of its iteration, whatever the
\* compactor did to the session before or does to it afterwards, and the
\* batch that is being dispatched holds the inputs of the last response.
C35_HandlerGetsModelInput ==
  /\ \A r \in BagToSet(handlerRuns) :
       /\ r.iter + 1 \in DOMAIN turns
       /\ LET calls == CollectToolCalls(turns[r.iter + 1].response) IN
            /\ r.idx \in DOMAIN calls
            /\ r.args.input = calls[r.idx].Input
            /\ r.input = calls[r.idx].Input
  /\ pc \in {"dispatch", "wait"} =>
       LET calls == CollectToolCalls(turns[Len(turns)].response) IN
         /\ Len(toolCalls) = Len(calls)
         /\ \A k \in DOMAIN calls : toolCalls[k].Input = calls[k].Input

\* With the default compactor, a handler was called with an input of more
\* than prefixLen bytes, and the session's copy of that tool call has been
\* truncated since.
C35_Witness ==
  /\ compactFunc
  /\ \E r \in BagToSet(handlerRuns) :
       /\ r.args.input = LongObject
       /\ Len(r.args.input) > prefixLen
       /\ \E p \in DOMAIN session :
            /\ p > Len(input)
            /\ session[p].kind = "tool_call"
            /\ session[p].ID = r.id
            /\ session[p].Input # LongObject

\* ------------------------------------------------- observer and handlers

\* Whether a handler of the batch has been called and has not returned.
HandlerRunning == \E k \in DOMAIN unit : unit[k].st = "running"

\* C36: within an iteration the observer is called for every message of the
\* model response before any handler of that response starts, and for the
\* tool results only after every handler of the batch has returned; it never
\* runs while a handler of the loop runs.  While a batch is dispatched or
\* awaited the observer has seen everything up to and including the response
\* and no result of the batch; a step that calls the observer starts from a
\* state in which every unit has finished and changes no unit; the results
\* are passed to it in the step that follows the wait.
C36_ObserverOutsideBatch ==
  /\ []((logFunc /\ pc \in {"dispatch", "wait"}) =>
          /\ Len(logged) >= Len(newMsgs)
          /\ SubSeq(logged, Len(logged) - Len(newMsgs) + 1, Len(logged))
               = newMsgs
          /\ logged = appended
          /\ session = SubSeq(session, 1, Len(session) - Len(newMsgs))
                         \o newMsgs)
  /\ [](\A r \in BagToSet(handlerRuns) :
          logFunc => Len(logged) >= TurnStart(r.iter + 1) - Len(input)
                                      + Len(turns[r.iter + 1].response))
  /\ [][logged' # logged =>
          /\ ~HandlerRunning
          /\ \A k \in DOMAIN unit : unit[k].st = "done"
          /\ unit' = unit
          /\ handlerRuns' = handlerRuns
          /\ \/ pc = "invoke" /\ logged' = logged \o newMsgs'
             \/ /\ pc = "wait" /\ pc' = "loop"
                /\ logged' = logged \o results
                /\ \A k \in DOMAIN results :
                     results[k].kind = "tool_result"]_vars

\* With an observer set, two handlers of a batch of three run; the observer
\* has been called for the three messages of the response and for nothing
\* else.
C36_Witness ==
  /\ logFunc
  /\ pc = "wait"
  /\ newMsgs = RespTriple
  /\ logged = RespTriple
  /\ Cardinality({k \in DOMAIN unit : unit[k].st = "running"}) = 2

\* -------------------------------------------------- writes of the results

\* The positions of the result slice that have been written.
Written == {k \in DOMAIN results : results[k].kind # "nil"}

\* C37: ExecuteToolCalls has no data race on its result slice: each position
\* is written exactly once, by the unit that executes the call of that
\* position (a written position belongs to a finished unit and carries its
\* call's id and output; a write fills the writer's own, still empty slot
\* and no other), and the caller reads the slice only after all units have
\* finished, when every position is written.
C37_ResultsWrittenOnce ==
  /\ [](pc = "wait" =>
          /\ Len(results) = Len(toolCalls)
          /\ Written = {k \in DOMAIN unit : unit[k].st = "done"}
          /\ \A k \in Written :
               results[k] = ToolResultMessage(toolCalls[k].ID, unit[k].output))
  /\ [][/\ (pc = "wait" /\ pc' = "wait" /\ results' # results) =>
             \E k \in DOMAIN unit :
               /\ unit[k].st = "computed"
               /\ unit'[k].st = "done"
               /\ results[k] = NilMessage
               /\ results' = [results EXCEPT ![k] =
                    ToolResultMessage(toolCalls[k].ID, unit[k].output)]
               /\ \A j \in DOMAIN unit : j # k => unit'[j] = unit[j]
        /\ (pc = "wait" /\ pc' # "wait") =>
             /\ Written = DOMAIN results
             /\ \A k \in DOMAIN unit : unit[k].st = "done"
             /\ results' = results]_vars

\* Two units of a batch of three have written their positions, the last
\* one first, while the middle one has its output and has not stored it.
C37_Witness ==
  /\ pc = "wait"
  /\ Len(results) = 3
  /\ Written = {1, 3}
  /\ order = <<3, 1>>
  /\ unit[2].st = "computed"

\* ------------------------------------------------ a new compactor instance

\* compact = defaultCompactor(); s = compact(s): an instance with an empty
\* index set, as every call of AgentLoop makes one, applied to a session
\* that an earlier instance compacted.
NewInstanceCall ==
  /\ pc \in {"compacted", "recompacted"}
  /\ LET c == defaultCompactor(session, {}) IN
       /\ session' = c.Messages
       /\ compacted' = c.compacted
  /\ invokedWith' = session
  /\ pc' = "renewed"
  /\ UNCHANGED <<config, codec, invokerArgs, request, alias, failure, batch,
                 i, err, newMsgs, invocations, invokeFailed, handlerRuns,
                 appended, logged, turns>>

NextInstances ==
  \/ \E m \in Entries : SessionAdd(m)
  \/ CompactCall
  \/ NewInstanceCall

SpecInstances == InitCompact /\ [][NextInstances]_vars

\* C38: a new default compactor instance run over a session that an earlier
\* instance compacted leaves every previously truncated Thinking, ToolCall
\* and ToolResult entry byte-identical.
C38_NewInstanceKeepsTruncated ==
  pc = "renewed" =>
    \A p \in DOMAIN invokedWith :
      invokedWith[p] # Original[p] => session[p] = invokedWith[p]

\* What holds of a new instance: the truncated Thinking and ToolResult
\* entries are byte-identical, every entry keeps its kind and id.
C38_NewInstanceKeepsTexts ==
  pc = "renewed" =>
    /\ Len(session) = Len(invokedWith)
    /\ \A p \in DOMAIN invokedWith :
         /\ session[p].kind = invokedWith[p].kind
         /\ (invokedWith[p] # Original[p] /\ session[p].kind # "tool_call")
              => session[p] = invokedWith[p]

\* ------------------------------------------------- nil return and the budget

\* C39: for every integer value of maxIterations, 0 and the negative ones
\* included, AgentLoop returns a nil error only after it has invoked the
\* model at least once and received a response with no tool calls.
C39_NilOnlyAfterResponse ==
  (pc = "returned" /\ err = "nil") =>
    /\ invocations >= 1
    /\ ~invokeFailed
    /\ Len(turns) = invocations
    /\ CollectToolCalls(turns[Len(turns)].response) = <<>>

\* C39 for the budgets from 1 on, and what happens below: with maxIterations
\* <= 0 the model is never invoked and the return is nil.
C39_NilOnlyAfterResponseFromOne ==
  /\ (pc = "returned" /\ err = "nil" /\ maxIterations >= 1) =>
       /\ invocations >= 1
       /\ ~invokeFailed
       /\ Len(turns) = invocations
       /\ CollectToolCalls(turns[Len(turns)].response) = <<>>
  /\ (pc = "returned" /\ maxIterations <= 0) =>
       err = "nil" /\ invocations = 0 /\ session = input

\* ---------------------------------------------- a failed Session.UnmarshalJSON

\* C40: if Session.UnmarshalJSON returns an error, the receiving Session's
\* Messages are the same as before the call: no partially decoded prefix is
\* stored and the earlier contents are not discarded.
C40_ErrorLeavesMessages ==
  [][decodeErr' # <<>> => decoded' = decoded]_vars

\* What a failed UnmarshalJSON of an array leaves: the messages decoded from
\* the records before the first one that fails, and nothing of the earlier
\* contents.
C40_ErrorLeavesPrefix ==
  (pc = "decoded" /\ decodeErr # <<>>) =>
    /\ Len(decoded) < Len(wire)
    /\ ~UnmarshalMessage(wire[Len(decoded) + 1]).ok
    /\ decodeErr = UnmarshalMessage(wire[Len(decoded) + 1]).err
    /\ \A p \in DOMAIN decoded :
         /\ UnmarshalMessage(wire[p]).ok
         /\ decoded[p] = UnmarshalMessage(wire[p]).msg

====
